---- MODULE Spec2Model ----
(***************************************************************************)
(* go-watchdir: the polling sweep/diff engine (watcher.Sweep, watcher.sweep *)
(* and watcher.sweepDeleted) over an abstract fs.FS.                        *)
(*                                                                         *)
(* Go path strings are modelled as sequences of path components: "" is     *)
(* <<>>, "." is <<".">>, "hello/foo" is <<"hello","foo">>.                *)
(*                                                                         *)
(* One sweep is a tree of tasks, one per visited directory.  Each action   *)
(* of a task is the code between two blocking points of sweep(): the        *)
(* start of the visit, the publication of one event on chanEvents, and      *)
(* eg.Wait().  The cache node of a directory is touched by the one task     *)
(* that visits it, so the code between two blocking points is atomic.       *)
(* The file system changes between two calls of Sweep, never during one.    *)
(*                                                                         *)
(* A context is a flag that is set once; the context of a child task is    *)
(* done when the caller's context is done or when a task group above it    *)
(* has recorded an error.  A select with two ready cases is two enabled    *)
(* actions.  Errors are named by kind; wrapping with %w keeps the kind.     *)
(* Watch is the loop of watcher.go around Sweep.                           *)
(***************************************************************************)
EXTENDS Integers, Sequences, FiniteSets, TLC

VARIABLES
    fs,        \* the base file system: path -> [kind, mtime]; the kind is
               \* "none", "file", "dir" or "loop", a directory that is a link
               \* to the directory above it
    now,       \* time.Now()
    cfg,       \* the watcher's options (fixed by New), and whether the build
               \* gives every loop iteration its own variable (go.mod)
    cache,     \* wd.cache: the dirCache tree, one node per relative dir path
    task,      \* the sweep tasks of the current Sweep call
    phase,     \* "idle" | "sweeping" | "returned"
    res,       \* the error returned by the last Sweep call
    events,    \* events received from chanEvents during the current Sweep call
    calls,     \* filter invocations of the current Sweep call
    sw,        \* what the current Sweep call started from, whether its context
               \* was done already, where its tasks were when its context
               \* was cancelled, and the paths whose latest event, of all the
               \* events received before the call, is Added (observation only)
    ops,       \* file-system operations since the last Sweep call returned
    at,        \* time.Now() when Sweep was last called (observation only)
    nSweeps,   \* number of Sweep calls so far
    nChanges,  \* number of file-system operations so far
    ctxDone,   \* the context handed to Sweep is done
    fault,     \* the calls of the file system and of the filters that fail
    fails,     \* the tasks of the current Sweep call that returned an error, in
               \* the order of their return (own: the error arose in the task)
    watch      \* the caller's loop: Watch's position and its result

vars == <<fs, now, cfg, cache, task, phase, res, events, calls, sw, ops,
          at, nSweeps, nChanges, ctxDone, fault, fails, watch>>

\* what no step of a sweep changes
outer == <<ctxDone, fault, watch>>

----------------------------------------------------------------------------
(* Bounds of the model *)

MaxSweeps == 3
MaxChanges == 2
MaxStabChanges == 1
MaxSwapSweeps == 4
MaxSwapChanges == 4
MaxNow == 1
MaxCancelSweeps == 2
MaxCancelChanges == 1
MaxLiveSweeps == 2
MaxLiveChanges == 1
MaxErrSweeps == 2
MaxErrChanges == 1
MaxWatchSweeps == 3
MaxWatchChanges == 1
MaxFanSweeps == 2
MaxFanChanges == 1
MaxListSweeps == 3
MaxListChanges == 3
MaxExclSweeps == 2
MaxExclChanges == 2
MaxCycleSweeps == 2
MaxCycleChanges == 1
MaxWatchLiveSweeps == 2
MaxWatchLiveChanges == 1
MaxConvSweeps == 3
MaxConvChanges == 2
MaxWatchErrSweeps == 2
MaxWatchErrChanges == 1
MaxVanishSweeps == 3
MaxVanishChanges == 3
MaxRecoverSweeps == 3
MaxRecoverChanges == 1
MaxRecoverFaults == 3

(* The write-stability threshold given to WithWriteStabilityThreshold *)

Thr == 1

(* Program constants *)

DefaultMaxDepth == 10
FileAdded == 1
FileRemoved == 2
AllEvents == 255

----------------------------------------------------------------------------
(* The universe of the file system *)

Names == {"a", "d", "e", "s"}

Paths == { <<"a">>, <<"d">>, <<"d", "a">>, <<"d", "e">>, <<"d", "e", "a">>,
           <<"s">>, <<"s", "a">> }

\* what may live at a path: "s" may be a file or a directory
FileOk(p) == p \in { <<"a">>, <<"d", "a">>, <<"d", "e", "a">>, <<"s">>, <<"s", "a">> }
DirOk(p) == p \in { <<"d">>, <<"d", "e">>, <<"s">> }

\* relative paths of cache nodes and tasks (<<"e">> is d/e seen from sub-root
\* d; d/e/e exists when d/e is a link to the directory above it)
DirRel == { <<>>, <<"d">>, <<"d", "e">>, <<"s">>, <<"e">>, <<"d", "e", "e">> }

Parent(p) == SubSeq(p, 1, Len(p) - 1)

IsPrefix(p, q) == Len(p) <= Len(q) /\ SubSeq(q, 1, Len(p)) = p

Absent == [kind |-> "none", mtime |-> 0]

WellFormed(f) ==
    \A p \in Paths :
        /\ f[p].kind = "file" => FileOk(p)
        /\ f[p].kind = "dir" => DirOk(p)
        /\ f[p].kind = "none" => f[p].mtime = 0
        /\ (f[p].kind # "none" /\ Len(p) > 1) => f[Parent(p)].kind = "dir"

Trees ==
    { f \in [Paths -> { [kind |-> k, mtime |-> 0] : k \in {"none", "file", "dir"} }] :
        WellFormed(f) }

\* the trees a run starts from: an existing directory holds all it can hold
InitTrees ==
    { f \in Trees :
        /\ f[<<"d">>].kind = "dir" =>
              f[<<"d", "a">>].kind = "file" /\ f[<<"d", "e", "a">>].kind = "file"
        /\ f[<<"s">>].kind = "dir" => f[<<"s", "a">>].kind = "file" }

----------------------------------------------------------------------------
(* Go path strings *)

Clean(p) ==
    LET q == SelectSeq(p, LAMBDA c : c # ".")
    IN  IF q = <<>> THEN <<".">> ELSE q

Join(a, b) == IF a \o b = <<>> THEN <<>> ELSE Clean(a \o b)

normalizePath(name) ==
    LET trimmed == Clean(name)
    IN  IF trimmed = <<".">> THEN <<>> ELSE trimmed

\* as prependSubRoot, returning the name as it is
prependSubRootNone(name) == name

prependSubRoot(name) ==
    IF cfg.subRoot = <<>> THEN name ELSE Join(cfg.subRoot, name)

\* the key of a path of the base file system: its components without "."
FsKey(p) == SelectSeq(p, LAMBDA c : c # ".")

\* the links on the way to key: the shortest prefix of key that is a link
LinkAt(key) ==
    { i \in 1..Len(key) :
        /\ SubSeq(key, 1, i) \in Paths
        /\ fs[SubSeq(key, 1, i)].kind = "loop"
        /\ \A j \in 1..(i - 1) :
              SubSeq(key, 1, j) \in Paths => fs[SubSeq(key, 1, j)].kind # "loop" }

\* the path key names when every link to the directory above it is followed
RECURSIVE Resolve(_)
Resolve(key) ==
    IF LinkAt(key) = {} THEN key
    ELSE LET i == CHOOSE j \in LinkAt(key) : TRUE
         IN  Resolve(SubSeq(key, 1, i - 1) \o SubSeq(key, i + 1, Len(key)))

KindAt(key) ==
    LET r == Resolve(key)
    IN  IF r = <<>> THEN "dir"
        ELSE IF r \in Paths THEN fs[r].kind ELSE "none"

----------------------------------------------------------------------------
(* Options *)

\* as HasEvent, with a mask that is not looked at
HasEventAny(bit) == TRUE

\* wd.eventsMask&bit != 0
HasEvent(bit) == (cfg.eventsMask \div bit) % 2 = 1

\* as DirFilterResult, with a filter that rejects nothing
DirFilterResultAll(dir) == TRUE

\* WithExcludeDirs: reject exactly the listed (normalised) directories
DirFilterResult(dir) == dir \notin cfg.dirExcl

\* as FileFilterResult, with a filter that rejects nothing
FileFilterResultAll(file) == TRUE

\* a deterministic file filter: reject exactly the listed paths
FileFilterResult(file) == file \notin cfg.fileExcl

Config(subRoot, mask, dirFilter, dirExcl, fileFilter, fileExcl, maxDepth, thr) ==
    [ subRoot |-> normalizePath(subRoot),
      eventsMask |-> mask,
      dirFilter |-> dirFilter,
      dirExcl |-> { normalizePath(x) : x \in dirExcl },
      fileFilter |-> fileFilter,
      fileExcl |-> fileExcl,
      maxDepth |-> maxDepth,
      writeStabilityThreshold |-> thr,
      perIteration |-> TRUE ]

----------------------------------------------------------------------------
(* The directory cache and the sweep tasks *)

NoEntries == [n \in Names |-> "none"]

\* the argument cache of sweep when it is a nil pointer
NilNode == <<"nil">>

newDirCache == [exists |-> TRUE, entries |-> NoEntries]

NilCache == [exists |-> FALSE, entries |-> NoEntries]

NoTask ==
    [ pc |-> "none", pathPrefix |-> <<>>, node |-> <<>>, depth |-> 0,
      listed |-> FALSE,
      entries |-> NoEntries, addq |-> {}, remq |-> {},
      casc |-> <<>>, cascName |-> "", err |-> "nil",
      errq |-> {}, gerr |-> "nil", gdone |-> FALSE, lost |-> FALSE ]

NoSw == [cache |-> [k \in DirRel |-> NilCache], ops |-> <<>>, res |-> "none",
         at |-> -1, cut |-> <<>>, ctx |-> FALSE, reported |-> {}]

\* what the receiver of chanEvents knows: the paths whose latest event is
\* Added, after the events ev, when they were the paths h before
Reported(h, ev) ==
    { q \in h : \A i \in DOMAIN ev : ev[i].path # q }
      \cup { ev[i].path : i \in { j \in DOMAIN ev :
                /\ ev[j].type = FileAdded
                /\ \A k \in DOMAIN ev : k > j => ev[k].path # ev[j].path } }

\* between two Sweep calls only the paths reported so far are remembered
Between == [NoSw EXCEPT !.reported = Reported(sw.reported, events)]

\* fs.Sub(wd.fsys, wd.subRoot): a path of the sweep's file system as a key of fs
SweepKey(pathPrefix) == FsKey(Join(cfg.subRoot, pathPrefix))

\* fs.ReadDir succeeds on directories only
readDirOk(pathPrefix) == KindAt(SweepKey(pathPrefix)) = "dir"

readDir(pathPrefix) ==
    [n \in Names |-> KindAt(SweepKey(pathPrefix) \o <<n>>)]

ModTime(pathPrefix, n) == fs[SweepKey(pathPrefix) \o <<n>>].mtime

\* the path handed to the file filter and put into events
FilePath(pathPrefix, n) == prependSubRoot(Join(pathPrefix, <<n>>))

\* first loop of sweep: drop the non-directories the file filter rejects
FileFiltered(pathPrefix, e) ==
    [n \in Names |->
        IF e[n] = "file" /\ cfg.fileFilter /\ ~FileFilterResult(FilePath(pathPrefix, n))
        THEN "none" ELSE e[n]]

\* as IsNew, without the test cache.entries[name] != nil
IsNewAlways(c, e, n) == e[n] = "file"

\* Added loop: the entry is a non-directory the cache node has no entry for
IsNew(c, e, n) == e[n] = "file" /\ c.entries[n] = "none"

\* Added loop, second filter call
Rejected(pathPrefix, n) ==
    cfg.fileFilter /\ ~FileFilterResult(FilePath(pathPrefix, n))

\* as TooYoung, without the stability check
TooYoungNever(pathPrefix, n) == FALSE

\* stat.ModTime().Add(wd.writeStabilityThreshold).After(time.Now())
TooYoung(pathPrefix, n) ==
    /\ cfg.writeStabilityThreshold > 0
    /\ ModTime(pathPrefix, n) + cfg.writeStabilityThreshold > now

\* as Surviving, with the stability check applied to cached files as well
SurvivingRecheck(pathPrefix, c, e) ==
    [n \in Names |->
        IF e[n] = "file" /\ (Rejected(pathPrefix, n) \/ TooYoung(pathPrefix, n))
        THEN "none" ELSE e[n]]

\* as Surviving, with an Added loop that deletes nothing from the entries
SurvivingKeep(pathPrefix, c, e) == e

\* as Surviving, with the stability check applied to directories as well
SurvivingGateDirs(pathPrefix, c, e) ==
    [n \in Names |->
        IF \/ IsNew(c, e, n) /\ (Rejected(pathPrefix, n) \/ TooYoung(pathPrefix, n))
           \/ e[n] = "dir" /\ TooYoung(pathPrefix, n)
        THEN "none" ELSE e[n]]

\* the entries map when the Added loop has ended
Surviving(pathPrefix, c, e) ==
    [n \in Names |->
        IF IsNew(c, e, n) /\ (Rejected(pathPrefix, n) \/ TooYoung(pathPrefix, n))
        THEN "none" ELSE e[n]]

\* the names the Added loop publishes an event for
AddedNames(pathPrefix, c, e) ==
    { n \in Names : /\ IsNew(c, e, n)
                    /\ ~Rejected(pathPrefix, n)
                    /\ ~TooYoung(pathPrefix, n)
                    /\ HasEvent(FileAdded) }

\* as RemovedNames, without the test for the name in the current entries
RemovedNamesAll(c, e) ==
    { n \in Names : /\ c.entries[n] # "none"
                    /\ (c.entries[n] = "dir" \/ HasEvent(FileRemoved)) }

\* the iterations of the Removed loop that do something
RemovedNames(c, e) ==
    { n \in Names : /\ c.entries[n] # "none"
                    /\ e[n] = "none"
                    /\ (c.entries[n] = "dir" \/ HasEvent(FileRemoved)) }

RECURSIVE SeqsOfSet(_)
SeqsOfSet(S) ==
    IF S = {} THEN {<<>>}
    ELSE UNION { { <<x>> \o s : s \in SeqsOfSet(S \ {x}) } : x \in S }

RECURSIVE CatChoices(_, _)
CatChoices(order, f) ==
    IF order = <<>> THEN {<<>>}
    ELSE { h \o r : h \in f[Head(order)], r \in CatChoices(Tail(order), f) }

\* as sweepDeleted, without the recursion into cached directories
sweepDeletedFlat(ch, k, pathPrefix) ==
    IF k \notin DirRel THEN {<<>>}
    ELSE IF ~ch[k].exists THEN {<<>>}
    ELSE LET names == { n \in Names : ch[k].entries[n] = "file" }
             f == [n \in names |->
                     IF HasEvent(FileRemoved)
                     THEN { << prependSubRoot(Join(pathPrefix, <<n>>)) >> }
                     ELSE {<<>>}]
         IN  UNION { CatChoices(order, f) : order \in SeqsOfSet(names) }

\* the event paths sweepDeleted publishes, in every order the map iteration allows
RECURSIVE sweepDeleted(_, _, _)
sweepDeleted(ch, k, pathPrefix) ==
    IF k \notin DirRel THEN {<<>>}
    ELSE IF ~ch[k].exists THEN {<<>>}
    ELSE LET names == { n \in Names : ch[k].entries[n] # "none" }
             f == [n \in names |->
                     IF ch[k].entries[n] = "dir"
                     THEN sweepDeleted(ch, k \o <<n>>, Join(pathPrefix, <<n>>))
                     ELSE IF HasEvent(FileRemoved)
                          THEN { << prependSubRoot(Join(pathPrefix, <<n>>)) >> }
                          ELSE {<<>>}]
         IN  UNION { CatChoices(order, f) : order \in SeqsOfSet(names) }

\* delete(cache.children, name): the child node and everything below it
DeleteChild(ch, k) ==
    [x \in DirRel |-> IF IsPrefix(k, x) THEN NilCache ELSE ch[x]]

ChildDirs(e) == { n \in Names : e[n] = "dir" }

\* as CommitCache, without the assignment cache.entries = entries
CommitCacheNoStore(ch, t, e) ==
    [k \in DirRel |->
        IF k = t THEN [exists |-> TRUE, entries |-> ch[t].entries]
        ELSE IF (\E n \in ChildDirs(e) : k = t \o <<n>>) /\ ~ch[k].exists
             THEN newDirCache
             ELSE ch[k]]

\* cache.entries = entries, and a child node for every current directory
CommitCache(ch, t, e) ==
    [k \in DirRel |->
        IF k = t THEN [exists |-> TRUE, entries |-> e]
        ELSE IF (\E n \in ChildDirs(e) : k = t \o <<n>>) /\ ~ch[k].exists
             THEN newDirCache
             ELSE ch[k]]

\* the position of name n in the order in which the loop takes the entries
Pos(order, n) == CHOOSE i \in 1..Len(order) : order[i] = n

\* cache.children[name] as the goroutine reads it
ChildNode(ch, node, n) ==
    IF (node \o <<n>>) \in DirRel /\ ch[node \o <<n>>].exists
    THEN node \o <<n>> ELSE NilNode

\* what the closures handed to eg.Go read from the range variable name, first
\* for the path and then for the cache node.  With a variable per iteration
\* it is the name of the iteration.  With one variable for the loop (go 1.20)
\* the goroutine reads while the loop goes on: each read yields the name of
\* its iteration or of a later one, of a directory or of a file
Bindings(ch, node, e) ==
    IF cfg.perIteration
    THEN { [n \in ChildDirs(e) |-> [path |-> n, node |-> ChildNode(ch, node, n)]] }
    ELSE LET keys == { n \in Names : e[n] # "none" }
         IN  UNION {
               { [n \in ChildDirs(e) |->
                    [path |-> f[n][1], node |-> ChildNode(ch, node, f[n][2])]] :
                 f \in { g \in [ChildDirs(e) -> keys \X keys] :
                           \A n \in ChildDirs(e) :
                              /\ Pos(order, g[n][1]) >= Pos(order, n)
                              /\ Pos(order, g[n][2]) >= Pos(order, g[n][1]) } } :
               order \in SeqsOfSet(keys) }

\* eg.Go for every current directory; eg.Wait returns at once without
\* children.  A child deeper than the deepest task of the model is lost: the
\* model does not follow it, and its parent waits for it for ever
SpawnChildren(tk, t, e, bind) ==
    [k \in DirRel |->
        IF k = t
        THEN [tk[t] EXCEPT !.pc = IF ChildDirs(e) = {} THEN "done" ELSE "wait",
                           !.lost = \E n \in ChildDirs(e) : (t \o <<n>>) \notin DirRel]
        ELSE IF \E n \in ChildDirs(e) : k = t \o <<n>>
             THEN [NoTask EXCEPT !.pc = "start",
                                 !.pathPrefix = Join(tk[t].pathPrefix,
                                                     <<bind[k[Len(k)]].path>>),
                                 !.node = bind[k[Len(k)]].node,
                                 !.depth = tk[t].depth + 1]
             ELSE tk[k]]

LoopsDone(r) == r.addq = {} /\ r.errq = {} /\ r.remq = {} /\ r.casc = <<>>

\* task t goes on from record r and cache ch up to its next blocking point
Continue(t, r, ch) ==
    IF LoopsDone(r)
    THEN \E stored \in { CommitCache(ch, r.node, r.entries) } :
           /\ cache' = stored
           /\ \E bind \in Bindings(stored, r.node, r.entries) :
                 task' = SpawnChildren([task EXCEPT ![t] = r], t, r.entries, bind)
    ELSE /\ cache' = ch
         /\ task' = [task EXCEPT ![t] = r]

Event(type, path, t) == [type |-> type, path |-> path, by |-> t]

----------------------------------------------------------------------------
(* Contexts and errors *)

NoFault == [readdir |-> {}, dirFilter |-> {}, fileFirst |-> {}, fileSecond |-> {},
            stat |-> {}]

\* fs.ReadDir returns an error for the directory
ReadDirFails(pathPrefix) == SweepKey(pathPrefix) \in fault.readdir

\* wd.dirFilter.Filter returns an error
DirFilterFails(dir) == cfg.dirFilter /\ dir \in fault.dirFilter

\* wd.fileFilter.Filter returns an error in the loop that drops excluded files
FirstFilterFails(file) == cfg.fileFilter /\ file \in fault.fileFirst

\* wd.fileFilter.Filter returns an error when the Added loop calls it again
SecondFilterFails(file) == cfg.fileFilter /\ file \in fault.fileSecond

\* entry.Info() returns an error; it is called with a positive threshold only
StatFails(file) == cfg.writeStabilityThreshold > 0 /\ file \in fault.stat

\* the iterations of the Added loop that return an error
ErrNames(pathPrefix, c, e) ==
    { n \in Names :
        /\ IsNew(c, e, n)
        /\ \/ SecondFilterFails(FilePath(pathPrefix, n))
           \/ ~Rejected(pathPrefix, n) /\ StatFails(FilePath(pathPrefix, n)) }

ErrKind(pathPrefix, n) ==
    IF SecondFilterFails(FilePath(pathPrefix, n)) THEN "filterfile" ELSE "stat"

\* as CtxDone, with contexts that are never seen done
CtxNeverDone(t) == FALSE

\* the ctx of task t: the caller's context, or the context errgroup.WithContext
\* derived from it in a task above t, which the first error of that group ends
CtxDone(t) ==
    \/ ctxDone
    \/ \E a \in DirRel : a # t /\ IsPrefix(a, t) /\ task[a].gdone

\* as Finish, with a group that drops the error a task returns
FinishDrop(tk, t, e) ==
    LET r == IF e = "nil" THEN [tk[t] EXCEPT !.pc = "done"]
             ELSE [tk[t] EXCEPT !.pc = "done", !.err = e, !.addq = {}, !.errq = {},
                                !.remq = {}, !.casc = <<>>, !.cascName = ""]
    IN  [tk EXCEPT ![t] = r]

\* as Finish, with a group that keeps the last error its tasks return
FinishLast(tk, t, e) ==
    LET r == IF e = "nil" THEN [tk[t] EXCEPT !.pc = "done"]
             ELSE [tk[t] EXCEPT !.pc = "done", !.err = e, !.addq = {}, !.errq = {},
                                !.remq = {}, !.casc = <<>>, !.cascName = ""]
        tk2 == [tk EXCEPT ![t] = r]
    IN  IF t = <<>> \/ e = "nil" THEN tk2
        ELSE [tk2 EXCEPT ![Parent(t)].gerr = e,
                         ![Parent(t)].gdone = TRUE]

\* task t returns e; in the group of its parent the first error that is
\* returned is kept and cancels the group's context
Finish(tk, t, e) ==
    LET r == IF e = "nil" THEN [tk[t] EXCEPT !.pc = "done"]
             ELSE [tk[t] EXCEPT !.pc = "done", !.err = e, !.addq = {}, !.errq = {},
                                !.remq = {}, !.casc = <<>>, !.cascName = ""]
        tk2 == [tk EXCEPT ![t] = r]
    IN  IF t = <<>> \/ e = "nil" THEN tk2
        ELSE [tk2 EXCEPT ![Parent(t)].gerr = IF @ = "nil" THEN e ELSE @,
                         ![Parent(t)].gdone = TRUE]

\* Sweep is called directly with a context that can be cancelled; Watch is
\* not running
NoWatch == [pc |-> "off", ret |-> "none", ctxErr |-> "canceled", interval |-> 0]

\* ctx.Err() of a context that is done: context.Canceled after a cancellation
\* by the caller or by a task group, context.DeadlineExceeded after the
\* deadline of the caller's context
CtxErr == IF ctxDone THEN watch.ctxErr ELSE "canceled"

\* a goroutine panics (nil pointer dereference): the process ends, and with
\* it every task
Crash ==
    task' = [k \in DirRel |->
               IF task[k].pc = "none" THEN task[k] ELSE [task[k] EXCEPT !.pc = "dead"]]

\* as Fail, with a task that stores its entries before it returns the error
FailStore(t, e) ==
    /\ task' = Finish(task, t, e)
    /\ fails' = Append(fails, [by |-> t, kind |-> e, own |-> TRUE])
    /\ cache' = IF task[t].node = NilNode THEN cache
                ELSE CommitCache(cache, task[t].node, task[t].entries)

\* task t returns the error e that arises in it
Fail(t, e) ==
    /\ task' = Finish(task, t, e)
    /\ fails' = Append(fails, [by |-> t, kind |-> e, own |-> TRUE])
    /\ UNCHANGED cache

----------------------------------------------------------------------------
(* Sweep *)

\* as TooDeep, letting the directories at depth maxDepth through
TooDeepOff(depth) == depth > cfg.maxDepth

\* depth >= wd.maxDepth
TooDeep(depth) == depth >= cfg.maxDepth

\* as getSweepFS, without the fs.Stat of the sub-root
getSweepFSNoStat == "nil"

\* getSweepFS: the error it returns ("nil" with the file system of the sweep)
getSweepFS ==
    IF cfg.subRoot = <<>> THEN "nil"
    ELSE IF KindAt(FsKey(cfg.subRoot)) = "none" THEN "notexist"
    ELSE "nil"

\* watcher.Sweep: getSweepFS, then the root visit is started
SweepCall ==
    /\ phase # "sweeping"
    /\ sw' = [cache |-> cache, ops |-> ops, res |-> res, at |-> at, cut |-> <<>>,
              ctx |-> ctxDone, reported |-> Reported(sw.reported, events)]
    /\ events' = <<>>
    /\ calls' = {}
    /\ ops' = <<>>
    /\ fails' = <<>>
    /\ at' = now
    /\ IF getSweepFS # "nil"
       THEN /\ phase' = "returned"
            /\ res' = getSweepFS
            /\ task' = [k \in DirRel |-> NoTask]
       ELSE /\ phase' = "sweeping"
            /\ res' = "pending"
            /\ task' = [k \in DirRel |->
                          IF k = <<>>
                          THEN [NoTask EXCEPT !.pc = "start", !.pathPrefix = <<".">>]
                          ELSE NoTask]
    /\ UNCHANGED <<fs, now, cfg, cache, nChanges, outer>>

\* one of at most limit calls of Sweep
Sweep(limit) ==
    /\ nSweeps < limit
    /\ nSweeps' = nSweeps + 1
    /\ SweepCall

\* watcher.sweep from its first line to its first blocking point
Visit(t) ==
    /\ task[t].pc = "start"
    /\ LET pathPrefix == task[t].pathPrefix
           dir == prependSubRoot(pathPrefix)
           dcalls == IF cfg.dirFilter THEN {[filter |-> "dir", path |-> dir]} ELSE {}
       IN  IF CtxDone(t)
           THEN /\ Fail(t, CtxErr)
                /\ UNCHANGED calls
           ELSE IF DirFilterFails(dir)
           THEN /\ Fail(t, "filterdir")
                /\ calls' = calls \cup dcalls
           ELSE IF cfg.dirFilter /\ ~DirFilterResult(dir)
           THEN /\ task' = Finish(task, t, "nil")
                /\ calls' = calls \cup dcalls
                /\ UNCHANGED <<cache, fails>>
           ELSE IF TooDeep(task[t].depth)
           THEN /\ task' = Finish(task, t, "nil")
                /\ calls' = calls \cup dcalls
                /\ UNCHANGED <<cache, fails>>
           ELSE IF ~readDirOk(pathPrefix) \/ ReadDirFails(pathPrefix)
           THEN /\ Fail(t, "readdir")
                /\ calls' = calls \cup dcalls
           ELSE \E listing \in { readDir(pathPrefix) } :
                \E e1 \in { FileFiltered(pathPrefix, listing) } :
                \E c \in { IF task[t].node = NilNode THEN newDirCache
                           ELSE cache[task[t].node] } :
                \E e2 \in { Surviving(pathPrefix, c, e1) } :
                \E errq \in { ErrNames(pathPrefix, c, e1) } :
                LET files == { m \in Names : listing[m] = "file" }
                    bad == { m \in files : FirstFilterFails(FilePath(pathPrefix, m)) }
                    fcalls(S) == IF cfg.fileFilter
                                 THEN { [filter |-> "file", path |-> FilePath(pathPrefix, n)] :
                                          n \in S }
                                 ELSE {}
                    r == [task[t] EXCEPT !.pc = "loop", !.listed = TRUE,
                                         !.entries = e2,
                                         !.addq = AddedNames(pathPrefix, c, e1) \ errq,
                                         !.errq = errq,
                                         !.remq = RemovedNames(c, e2)]
                IN  IF bad # {}
                    THEN /\ \E b \in bad, S \in SUBSET (files \ bad) :
                               calls' = calls \cup dcalls \cup fcalls(S \cup {b})
                         /\ Fail(t, "filterfile")
                    ELSE IF task[t].node = NilNode
                    THEN /\ calls' = calls \cup dcalls \cup fcalls(files)
                         /\ Crash
                         /\ UNCHANGED <<cache, fails>>
                    ELSE /\ calls' = calls \cup dcalls \cup fcalls(files)
                         /\ \E visited \in {r} : Continue(t, visited, cache)
                         /\ UNCHANGED fails
    /\ UNCHANGED <<fs, now, cfg, phase, res, events, sw, ops, at, nSweeps, nChanges, outer>>

\* one iteration of the Added loop that publishes
PublishAdded(t, n) ==
    /\ task[t].pc = "loop"
    /\ n \in task[t].addq
    /\ events' = Append(events, Event(FileAdded, FilePath(task[t].pathPrefix, n), t))
    /\ Continue(t, [task[t] EXCEPT !.addq = @ \ {n}], cache)
    /\ UNCHANGED <<fs, now, cfg, phase, res, calls, sw, ops, at, nSweeps, nChanges,
                   fails, outer>>

\* one iteration of the Added loop in which the file filter or entry.Info()
\* returns an error
AddedFails(t, n) ==
    /\ task[t].pc = "loop"
    /\ n \in task[t].errq
    /\ Fail(t, ErrKind(task[t].pathPrefix, n))
    /\ UNCHANGED <<fs, now, cfg, phase, res, events, calls, sw, ops, at, nSweeps,
                   nChanges, outer>>

\* as PublishRemoved, in a loop that does not wait for the Added loop to end
PublishRemovedEarly(t, n) ==
    /\ task[t].pc = "loop"
    /\ task[t].casc = <<>>
    /\ n \in task[t].remq
    /\ cache[task[t].node].entries[n] = "file"
    /\ events' = Append(events, Event(FileRemoved, FilePath(task[t].pathPrefix, n), t))
    /\ Continue(t, [task[t] EXCEPT !.remq = @ \ {n}], cache)
    /\ UNCHANGED <<fs, now, cfg, phase, res, calls, sw, ops, at, nSweeps, nChanges,
                   fails, outer>>

\* one iteration of the Removed loop for a cached file that is gone
PublishRemoved(t, n) ==
    /\ task[t].pc = "loop"
    /\ task[t].addq = {}
    /\ task[t].errq = {}
    /\ task[t].casc = <<>>
    /\ n \in task[t].remq
    /\ cache[task[t].node].entries[n] = "file"
    /\ events' = Append(events, Event(FileRemoved, FilePath(task[t].pathPrefix, n), t))
    /\ Continue(t, [task[t] EXCEPT !.remq = @ \ {n}], cache)
    /\ UNCHANGED <<fs, now, cfg, phase, res, calls, sw, ops, at, nSweeps, nChanges,
                   fails, outer>>

\* one iteration of the Removed loop for a cached directory that is gone:
\* sweepDeleted is entered; without anything to publish the child is deleted at once
RemovedDir(t, n) ==
    /\ task[t].pc = "loop"
    /\ task[t].addq = {}
    /\ task[t].errq = {}
    /\ task[t].casc = <<>>
    /\ n \in task[t].remq
    /\ cache[task[t].node].entries[n] = "dir"
    /\ \E seq \in sweepDeleted(cache, task[t].node \o <<n>>, Join(task[t].pathPrefix, <<n>>)) :
          IF seq = <<>>
          THEN Continue(t, [task[t] EXCEPT !.remq = @ \ {n}],
                        DeleteChild(cache, task[t].node \o <<n>>))
          ELSE Continue(t, [task[t] EXCEPT !.casc = seq, !.cascName = n], cache)
    /\ UNCHANGED <<fs, now, cfg, phase, res, events, calls, sw, ops, at, nSweeps,
                   nChanges, fails, outer>>

\* sweepDeleted publishes its next event; after the last one the child is deleted
PublishCascade(t) ==
    /\ task[t].pc = "loop"
    /\ task[t].casc # <<>>
    /\ events' = Append(events, Event(FileRemoved, Head(task[t].casc), t))
    /\ IF Tail(task[t].casc) = <<>>
       THEN Continue(t, [task[t] EXCEPT !.casc = <<>>, !.cascName = "",
                                        !.remq = @ \ {task[t].cascName}],
                     DeleteChild(cache, task[t].node \o <<task[t].cascName>>))
       ELSE Continue(t, [task[t] EXCEPT !.casc = Tail(@)], cache)
    /\ UNCHANGED <<fs, now, cfg, phase, res, calls, sw, ops, at, nSweeps, nChanges,
                   fails, outer>>

\* as AtPublish, with a sweepDeleted that publishes without a case <-ctx.Done()
AtPublishNoCascade(t) ==
    /\ task[t].pc = "loop"
    /\ \/ task[t].addq # {}
       \/ /\ task[t].addq = {}
          /\ task[t].errq = {}
          /\ task[t].casc = <<>>
          /\ \E n \in task[t].remq : cache[task[t].node].entries[n] = "file"

\* task t is in a select that publishes an event
AtPublish(t) ==
    /\ task[t].pc = "loop"
    /\ \/ task[t].addq # {}
       \/ task[t].casc # <<>>
       \/ /\ task[t].addq = {}
          /\ task[t].errq = {}
          /\ \E n \in task[t].remq :
                \/ cache[task[t].node].entries[n] = "file"
                \/ sweepDeleted(cache, task[t].node \o <<n>>, Join(task[t].pathPrefix, <<n>>))
                     # {<<>>}

\* the select of a publication takes the case <-ctx.Done()
CancelPublish(t) ==
    /\ AtPublish(t)
    /\ CtxDone(t)
    /\ Fail(t, CtxErr)
    /\ UNCHANGED <<fs, now, cfg, phase, res, events, calls, sw, ops, at, nSweeps,
                   nChanges, outer>>

Children(t) == { k \in DirRel : Len(k) = Len(t) + 1 /\ IsPrefix(t, k) /\ task[k].pc # "none" }

\* as Wait, returning as soon as one child task has returned
WaitFirst(t) ==
    /\ task[t].pc = "wait"
    /\ ~task[t].lost
    /\ \E k \in Children(t) : task[k].pc = "done"
    /\ task' = Finish([task EXCEPT ![t].gdone = TRUE], t, task[t].gerr)
    /\ fails' = IF task[t].gerr = "nil" THEN fails
                ELSE Append(fails, [by |-> t, kind |-> task[t].gerr, own |-> FALSE])
    /\ UNCHANGED <<fs, now, cfg, cache, phase, res, events, calls, sw, ops, at,
                   nSweeps, nChanges, outer>>

\* eg.Wait returns the first error of the group when every child task has
\* returned, and cancels the group's context
Wait(t) ==
    /\ task[t].pc = "wait"
    /\ ~task[t].lost
    /\ \A k \in Children(t) : task[k].pc = "done"
    /\ task' = Finish([task EXCEPT ![t].gdone = TRUE], t, task[t].gerr)
    /\ fails' = IF task[t].gerr = "nil" THEN fails
                ELSE Append(fails, [by |-> t, kind |-> task[t].gerr, own |-> FALSE])
    /\ UNCHANGED <<fs, now, cfg, cache, phase, res, events, calls, sw, ops, at,
                   nSweeps, nChanges, outer>>

\* the root visit has returned: Sweep returns its error
SweepReturn ==
    /\ phase = "sweeping"
    /\ task[<<>>].pc = "done"
    /\ phase' = "returned"
    /\ res' = IF task[<<>>].err = "nil" THEN "ok" ELSE task[<<>>].err
    /\ UNCHANGED <<fs, now, cfg, cache, task, events, calls, sw, ops, at,
                   nSweeps, nChanges, fails, outer>>

----------------------------------------------------------------------------
(* The environment: the file system changes and time passes between sweeps *)

Touched(f, p) ==
    IF Len(p) > 1 THEN [f EXCEPT ![Parent(p)].mtime = now] ELSE f

EnvStep(f, op, limit) ==
    /\ phase # "sweeping"
    /\ nChanges < limit
    /\ nChanges' = nChanges + 1
    /\ fs' = f
    /\ ops' = Append(ops, op)
    /\ phase' = "idle"
    /\ events' = <<>>
    /\ calls' = {}
    /\ sw' = Between
    /\ task' = [k \in DirRel |-> NoTask]
    /\ fails' = <<>>
    /\ UNCHANGED <<now, cfg, cache, res, at, nSweeps, outer>>

WriteFile(p, limit) ==
    /\ FileOk(p)
    /\ fs[p].kind = "none"
    /\ KindAt(Parent(p)) = "dir"
    /\ EnvStep(Touched([fs EXCEPT ![p] = [kind |-> "file", mtime |-> now]], p),
               [op |-> "write", path |-> p, empty |-> TRUE], limit)

Mkdir(p, limit) ==
    /\ DirOk(p)
    /\ fs[p].kind = "none"
    /\ KindAt(Parent(p)) = "dir"
    /\ EnvStep(Touched([fs EXCEPT ![p] = [kind |-> "dir", mtime |-> now]], p),
               [op |-> "mkdir", path |-> p, empty |-> TRUE], limit)

RemoveAll(p, limit) ==
    /\ fs[p].kind # "none"
    /\ EnvStep(Touched([q \in Paths |-> IF IsPrefix(p, q) THEN Absent ELSE fs[q]], p),
               [op |-> IF fs[p].kind = "dir" THEN "rmdir" ELSE "rm", path |-> p,
                empty |-> \A q \in Paths : (IsPrefix(p, q) /\ q # p) => fs[q].kind = "none"],
               limit)

\* os.Rename of a file to a free name of the same directory
Rename(p, q, limit) ==
    /\ fs[p].kind = "file"
    /\ fs[q].kind = "none"
    /\ FileOk(q)
    /\ Parent(p) = Parent(q)
    /\ EnvStep(Touched([fs EXCEPT ![q] = fs[p], ![p] = Absent], p),
               [op |-> "rename", path |-> p, empty |-> TRUE], limit)

\* an existing file is rewritten
Rewrite(p, limit) ==
    /\ fs[p].kind = "file"
    /\ fs[p].mtime # now
    /\ EnvStep([fs EXCEPT ![p].mtime = now],
               [op |-> "rewrite", path |-> p, empty |-> TRUE], limit)

Tick ==
    /\ phase # "sweeping"
    /\ now < MaxNow
    /\ now' = now + 1
    /\ phase' = "idle"
    /\ events' = <<>>
    /\ calls' = {}
    /\ sw' = Between
    /\ task' = [k \in DirRel |-> NoTask]
    /\ fails' = <<>>
    /\ UNCHANGED <<fs, cfg, cache, res, ops, at, nSweeps, nChanges, outer>>

\* calls of the file system or of the filters begin or cease to fail
Inject(f, limit) ==
    /\ phase # "sweeping"
    /\ nChanges < limit
    /\ f # fault
    /\ nChanges' = nChanges + 1
    /\ fault' = f
    /\ phase' = "idle"
    /\ events' = <<>>
    /\ calls' = {}
    /\ sw' = Between
    /\ task' = [k \in DirRel |-> NoTask]
    /\ fails' = <<>>
    /\ UNCHANGED <<fs, now, cfg, cache, res, ops, at, nSweeps, ctxDone, watch>>

\* the Filter given to WithDirFilter begins to reject dir: the watcher calls
\* it in every sweep and keeps none of its answers
Reject(dir, limit) ==
    /\ phase # "sweeping"
    /\ nChanges < limit
    /\ cfg.dirFilter
    /\ dir \notin cfg.dirExcl
    /\ nChanges' = nChanges + 1
    /\ cfg' = [cfg EXCEPT !.dirExcl = @ \cup {dir}]
    /\ phase' = "idle"
    /\ events' = <<>>
    /\ calls' = {}
    /\ sw' = Between
    /\ task' = [k \in DirRel |-> NoTask]
    /\ fails' = <<>>
    /\ UNCHANGED <<fs, now, cache, res, ops, at, nSweeps, outer>>

\* the caller cancels the context, or its deadline passes; during a Sweep
\* call the positions of its tasks are recorded
Cancel ==
    /\ ~ctxDone
    /\ ctxDone' = TRUE
    /\ sw' = IF phase = "sweeping"
             THEN [sw EXCEPT !.cut = << [k \in DirRel |-> task[k].pc] >>]
             ELSE sw
    /\ UNCHANGED <<fs, now, cfg, cache, task, phase, res, events, calls, ops, at,
                   nSweeps, nChanges, fault, fails, watch>>

\* the next Sweep call is given a new context
NewContext ==
    /\ phase # "sweeping"
    /\ ctxDone
    /\ ctxDone' = FALSE
    /\ phase' = "idle"
    /\ events' = <<>>
    /\ calls' = {}
    /\ sw' = Between
    /\ task' = [k \in DirRel |-> NoTask]
    /\ fails' = <<>>
    /\ UNCHANGED <<fs, now, cfg, cache, res, ops, at, nSweeps, nChanges, fault, watch>>

----------------------------------------------------------------------------
(* Watch *)

\* Watch calls w.Sweep(ctx, chanEvents)
WatchSweep(limit) ==
    /\ watch.pc = "call"
    /\ phase = "idle"
    /\ Sweep(limit)

\* Watch calls w.Sweep(ctx, chanEvents) with a context that is done, after
\* limit calls: these calls are not counted
WatchSweepDone(limit) ==
    /\ watch.pc = "call"
    /\ phase = "idle"
    /\ ctxDone
    /\ nSweeps >= limit
    /\ SweepCall
    /\ UNCHANGED nSweeps

\* as WatchCheck, returning every error of Sweep
WatchCheckAny ==
    /\ watch.pc = "call"
    /\ phase = "returned"
    /\ watch' = IF res # "ok"
                THEN [watch EXCEPT !.pc = "returned", !.ret = res]
                ELSE [watch EXCEPT !.pc = "sleep"]
    /\ UNCHANGED <<fs, now, cfg, cache, task, phase, res, events, calls, sw, ops, at,
                   nSweeps, nChanges, ctxDone, fault, fails>>

\* Sweep has returned: with an error that is context.Canceled Watch returns
\* it, otherwise it goes on to the select
WatchCheck ==
    /\ watch.pc = "call"
    /\ phase = "returned"
    /\ watch' = IF res = "canceled"
                THEN [watch EXCEPT !.pc = "returned", !.ret = res]
                ELSE [watch EXCEPT !.pc = "sleep"]
    /\ UNCHANGED <<fs, now, cfg, cache, task, phase, res, events, calls, sw, ops, at,
                   nSweeps, nChanges, ctxDone, fault, fails>>

\* the select takes the case <-ctx.Done(): Watch returns ctx.Err()
WatchCtxDone ==
    /\ watch.pc = "sleep"
    /\ ctxDone
    /\ watch' = [watch EXCEPT !.pc = "returned", !.ret = CtxErr]
    /\ UNCHANGED <<fs, now, cfg, cache, task, phase, res, events, calls, sw, ops, at,
                   nSweeps, nChanges, ctxDone, fault, fails>>

\* the select takes the case <-time.After(sweepInterval): with a context that
\* is done this case is taken only if the timer is ready at once
WatchWake ==
    /\ watch.pc = "sleep"
    /\ ~ctxDone \/ watch.interval <= 0
    /\ watch' = [watch EXCEPT !.pc = "call"]
    /\ phase' = "idle"
    /\ UNCHANGED <<fs, now, cfg, cache, task, res, events, calls, sw, ops, at,
                   nSweeps, nChanges, ctxDone, fault, fails>>

----------------------------------------------------------------------------
(* Specifications *)

InitFrom(trees, configs, watches) ==
    /\ fs \in trees
    /\ now = 0
    /\ cfg \in configs
    /\ cache = [k \in DirRel |-> IF k = <<>> THEN newDirCache ELSE NilCache]
    /\ task = [k \in DirRel |-> NoTask]
    /\ phase = "idle"
    /\ res = "none"
    /\ events = <<>>
    /\ calls = {}
    /\ sw = NoSw
    /\ ops = <<>>
    /\ at = -1
    /\ nSweeps = 0
    /\ nChanges = 0
    /\ ctxDone = FALSE
    /\ fault = NoFault
    /\ fails = <<>>
    /\ watch \in watches

InitAll(configs, watches) == InitFrom(InitTrees, configs, watches)

InitWith(configs) == InitAll(configs, {NoWatch})

TaskStep ==
    \/ \E t \in DirRel : Visit(t)
    \/ \E t \in DirRel, n \in Names : PublishAdded(t, n)
    \/ \E t \in DirRel, n \in Names : PublishRemoved(t, n)
    \/ \E t \in DirRel, n \in Names : RemovedDir(t, n)
    \/ \E t \in DirRel : PublishCascade(t)
    \/ \E t \in DirRel : Wait(t)
    \/ SweepReturn

FsStep(limit) ==
    \/ \E p \in Paths : WriteFile(p, limit)
    \/ \E p \in Paths : Mkdir(p, limit)
    \/ \E p \in Paths : RemoveAll(p, limit)
    \/ \E p, q \in Paths : Rename(p, q, limit)

\* New(fsys, WithWriteStabilityThreshold(0)) as in the tests
Configs ==
    { Config(<<>>, AllEvents, FALSE, {}, FALSE, {}, DefaultMaxDepth, 0) }

Init == InitWith(Configs)

Next == Sweep(MaxSweeps) \/ TaskStep \/ FsStep(MaxChanges)

Spec == Init /\ [][Next]_vars

\* WithExcludeDirs("d/e") and a file filter that rejects s/a
FiltConfigs ==
    { Config(<<>>, AllEvents, TRUE, {<<"d", "e">>}, TRUE, {<<"s", "a">>},
             DefaultMaxDepth, 0) }

InitFilt == InitWith(FiltConfigs)

SpecFilt == InitFilt /\ [][Next]_vars

\* WithSubRoot("d") with a directory filter and a file filter that accept
\* everything, as in the sub-root tests
SubConfigs ==
    { Config(<<"d">>, AllEvents, TRUE, {}, TRUE, {}, DefaultMaxDepth, 0) }

InitSub == InitWith(SubConfigs)

SpecSub == InitSub /\ [][Next]_vars

\* a positive write-stability threshold and a file filter that rejects s/a;
\* time passes and files are rewritten
StabConfigs ==
    { Config(<<>>, AllEvents, FALSE, {}, TRUE, {<<"s", "a">>}, DefaultMaxDepth, Thr) }

InitStab == InitWith(StabConfigs)

NextStab ==
    \/ Sweep(MaxSweeps)
    \/ TaskStep
    \/ FsStep(MaxStabChanges)
    \/ \E p \in Paths : Rewrite(p, MaxStabChanges)
    \/ Tick

SpecStab == InitStab /\ [][NextStab]_vars

\* a file filter that rejects s and d/a, with a positive write-stability
\* threshold; time passes and files are rewritten
FileFiltConfigs ==
    { Config(<<>>, AllEvents, FALSE, {}, TRUE, {<<"s">>, <<"d", "a">>},
             DefaultMaxDepth, Thr) }

InitFileFilt == InitWith(FileFiltConfigs)

SpecFileFilt == InitFileFilt /\ [][NextStab]_vars

\* the name s changes between a file and a directory that holds s/a; the
\* run starts from the tree that holds the directory s and the file s/a
SwapTrees ==
    { f \in Trees : \A p \in Paths :
         f[p].kind # "none" <=> p \in { <<"s">>, <<"s", "a">> } }

InitSwap ==
    /\ InitWith(Configs)
    /\ fs \in SwapTrees

NextSwap ==
    \/ Sweep(MaxSwapSweeps)
    \/ TaskStep
    \/ \E p \in { <<"s">>, <<"s", "a">> } : WriteFile(p, MaxSwapChanges)
    \/ Mkdir(<<"s">>, MaxSwapChanges)
    \/ RemoveAll(<<"s">>, MaxSwapChanges)

SpecSwap == InitSwap /\ [][NextSwap]_vars

\* WithEvents(FileAdded), WithEvents(FileRemoved) and the mask New starts with
MaskConfigs ==
    { Config(<<>>, m, FALSE, {}, FALSE, {}, DefaultMaxDepth, 0) :
        m \in {FileAdded, FileRemoved, AllEvents} }

InitMask == InitWith(MaskConfigs)

SpecMask == InitMask /\ [][Next]_vars

\* WithMaxDepth(0), WithMaxDepth(1) and WithMaxDepth(2)
DepthConfigs ==
    { Config(<<>>, AllEvents, FALSE, {}, FALSE, {}, m, 0) : m \in 0..2 }

InitDepth == InitWith(DepthConfigs)

SpecDepth == InitDepth /\ [][Next]_vars

\* the context of a Sweep call is cancelled, before or during the call
CtxStep ==
    \/ \E t \in DirRel : CancelPublish(t)
    \/ Cancel
    \/ NewContext

NextCancel ==
    \/ Sweep(MaxCancelSweeps)
    \/ TaskStep
    \/ CtxStep
    \/ FsStep(MaxCancelChanges)

SpecCancel == Init /\ [][NextCancel]_vars

\* a directory filter and a file filter that accept everything, without and
\* with a write-stability threshold
ErrConfigs ==
    { Config(<<>>, AllEvents, TRUE, {}, TRUE, {}, DefaultMaxDepth, 0),
      Config(<<>>, AllEvents, TRUE, {}, TRUE, {}, DefaultMaxDepth, Thr) }

\* the failures of a run: one call fails, or two calls in different directories
Faults ==
    { NoFault,
      [NoFault EXCEPT !.readdir = {<<"s">>}],
      [NoFault EXCEPT !.readdir = {<<"d", "e">>}],
      [NoFault EXCEPT !.dirFilter = {<<"d">>}],
      [NoFault EXCEPT !.fileFirst = {<<"d", "a">>}],
      [NoFault EXCEPT !.fileSecond = {<<"a">>}],
      [NoFault EXCEPT !.fileSecond = {<<"s", "a">>}],
      [NoFault EXCEPT !.stat = {<<"s", "a">>}],
      [NoFault EXCEPT !.readdir = {<<"d", "e">>}, !.fileFirst = {<<"s", "a">>}] }

InitErr == InitWith(ErrConfigs)

NextErr ==
    \/ Sweep(MaxErrSweeps)
    \/ TaskStep
    \/ \E t \in DirRel, n \in Names : AddedFails(t, n)
    \/ \E t \in DirRel : CancelPublish(t)
    \/ \E f \in Faults : Inject(f, MaxErrChanges)
    \/ FsStep(MaxErrChanges)

SpecErr == InitErr /\ [][NextErr]_vars

\* Watch is called with a context that is cancelled or whose deadline passes,
\* and with a sweep interval of zero or more
Watches ==
    { [pc |-> "call", ret |-> "none", ctxErr |-> k, interval |-> i] :
        k \in {"canceled", "deadline"}, i \in 0..1 }

InitWatch == InitAll(Configs, Watches)

\* while Watch sleeps the listing of s begins or ceases to fail, or a file or
\* a directory is removed
WatchFaults == { NoFault, [NoFault EXCEPT !.readdir = {<<"s">>}] }

NextWatch ==
    \/ WatchSweep(MaxWatchSweeps)
    \/ TaskStep
    \/ \E t \in DirRel : CancelPublish(t)
    \/ Cancel
    \/ WatchCheck
    \/ WatchCtxDone
    \/ WatchWake
    \/ \E f \in WatchFaults : watch.pc = "sleep" /\ Inject(f, MaxWatchChanges)
    \/ \E p \in Paths : watch.pc = "sleep" /\ RemoveAll(p, MaxWatchChanges)

SpecWatch == InitWatch /\ [][NextWatch]_vars

\* the steps of a sweep that wait for nobody: not for the sink, not for the caller
Runnable ==
    \/ \E t \in DirRel : Visit(t)
    \/ \E t \in DirRel, n \in Names : RemovedDir(t, n)
    \/ \E t \in DirRel : CancelPublish(t)
    \/ \E t \in DirRel : Wait(t)
    \/ SweepReturn

\* the Go scheduler runs a goroutine that can take a step; the sink is free to
\* receive an event or never to receive it, and the caller to cancel or not
TaskFairness == WF_vars(Runnable)

\* the run starts from the tree that holds every path; the file a and the
\* directories d and d/e are removed between the sweeps; the one context of
\* the run is cancelled at any time
LiveTrees == { f \in Trees : \A p \in Paths : f[p].kind # "none" }

InitLive ==
    /\ InitWith(Configs)
    /\ fs \in LiveTrees

NextLive ==
    \/ Sweep(MaxLiveSweeps)
    \/ TaskStep
    \/ \E t \in DirRel : CancelPublish(t)
    \/ Cancel
    \/ \E p \in { <<"a">>, <<"d">>, <<"d", "e">> } : RemoveAll(p, MaxLiveChanges)

SpecCancelLive == InitLive /\ [][NextLive]_vars /\ TaskFairness

InitWatchLive == InitFrom(LiveTrees, Configs, Watches)

\* Watch runs until its context is done; once it is, Watch goes on calling
\* Sweep for as long as its select takes the timer
NextWatchLive ==
    \/ WatchSweep(MaxWatchLiveSweeps)
    \/ WatchSweepDone(MaxWatchLiveSweeps)
    \/ TaskStep
    \/ \E t \in DirRel : CancelPublish(t)
    \/ Cancel
    \/ WatchCheck
    \/ WatchCtxDone
    \/ WatchWake
    \/ \E f \in WatchFaults : watch.pc = "sleep" /\ Inject(f, MaxWatchLiveChanges)
    \/ \E p \in { <<"a">>, <<"s">> } : watch.pc = "sleep" /\ RemoveAll(p, MaxWatchLiveChanges)

\* the goroutine of Watch runs when it can: it calls Sweep and looks at what
\* Sweep returned; a select with several cases that can proceed picks one of
\* them at random, so the case <-ctx.Done() is not passed over for ever
WatchFairness ==
    /\ WF_vars(WatchSweep(MaxWatchLiveSweeps) \/ WatchSweepDone(MaxWatchLiveSweeps))
    /\ WF_vars(WatchCheck)
    /\ SF_vars(WatchCtxDone)

SpecWatchLive == InitWatchLive /\ [][NextWatchLive]_vars /\ TaskFairness /\ WatchFairness

\* the listing of directory s fails for a while: fs.ReadDir of s begins and
\* ceases to return an error between the sweeps, while the files a and s/a
\* and the directory s come and go
ListFaults == { NoFault, [NoFault EXCEPT !.readdir = {<<"s">>}] }

InitList == InitFrom(SwapTrees, Configs, {NoWatch})

NextList ==
    \/ Sweep(MaxListSweeps)
    \/ TaskStep
    \/ \E f \in ListFaults : Inject(f, MaxListChanges)
    \/ \E p \in { <<"a">>, <<"s", "a">> } : WriteFile(p, MaxListChanges)
    \/ \E p \in { <<"a">>, <<"s">>, <<"s", "a">> } : RemoveAll(p, MaxListChanges)

SpecList == InitList /\ [][NextList]_vars

\* WithDirFilter with a filter that accepts every directory at first and
\* comes to reject d, d/e or s between the sweeps
ExclConfigs ==
    { Config(<<>>, AllEvents, TRUE, {}, FALSE, {}, DefaultMaxDepth, 0) }

InitExcl == InitWith(ExclConfigs)

NextExcl ==
    \/ Sweep(MaxExclSweeps)
    \/ TaskStep
    \/ \E dir \in { <<"d">>, <<"d", "e">>, <<"s">> } : Reject(dir, MaxExclChanges)
    \/ FsStep(MaxExclChanges)

SpecExcl == InitExcl /\ [][NextExcl]_vars

\* WithMaxDepth(1), WithMaxDepth(2) and WithMaxDepth(3)
CycleConfigs ==
    { Config(<<>>, AllEvents, FALSE, {}, FALSE, {}, m, 0) : m \in 1..3 }

\* a file system with a directory cycle: d/e is a link to d, the directory
\* above it, which fs.ReadDir lists as a directory
CycleTrees ==
    { [f EXCEPT ![<<"d", "e">>] = [kind |-> "loop", mtime |-> 0],
                ![<<"d", "e", "a">>] = Absent] :
        f \in { g \in InitTrees : g[<<"d">>].kind = "dir" } }

InitCycle == InitFrom(CycleTrees, CycleConfigs, {NoWatch})

NextCycle ==
    \/ Sweep(MaxCycleSweeps)
    \/ TaskStep
    \/ \E p \in { <<"a">>, <<"d", "a">>, <<"s", "a">> } : WriteFile(p, MaxCycleChanges)
    \/ \E p \in { <<"a">>, <<"d", "a">>, <<"s">>, <<"s", "a">> } :
          RemoveAll(p, MaxCycleChanges)

\* the Go scheduler runs a goroutine that can take a step, and the sink
\* receives every event it is offered
SinkFairness == WF_vars(TaskStep)

SpecCycle == InitCycle /\ [][NextCycle]_vars /\ SinkFairness

\* a watcher with a directory filter that rejects d/e and a file filter that
\* rejects d/a, and a watcher with WithMaxDepth(2)
ConvConfigs ==
    { Config(<<>>, AllEvents, TRUE, {<<"d", "e">>}, TRUE, {<<"d", "a">>},
             DefaultMaxDepth, 0),
      Config(<<>>, AllEvents, FALSE, {}, FALSE, {}, 2, 0) }

\* the name s is the name of a file, here and in every later tree
ConvTrees == { f \in InitTrees : f[<<"s">>].kind # "dir" }

InitConv == InitFrom(ConvTrees, ConvConfigs, {NoWatch})

\* no name is reused with another type: files and directories come and go
\* under their own names; a Sweep call may be cancelled, and the next one is
\* given a new context
NextConv ==
    \/ Sweep(MaxConvSweeps)
    \/ TaskStep
    \/ CtxStep
    \/ \E p \in Paths \ { <<"s", "a">> } : WriteFile(p, MaxConvChanges)
    \/ \E p \in { <<"d">>, <<"d", "e">> } : Mkdir(p, MaxConvChanges)
    \/ \E p \in Paths : RemoveAll(p, MaxConvChanges)

SpecConv == InitConv /\ [][NextConv]_vars

InitWatchErr == InitFrom(LiveTrees, ErrConfigs, Watches)

\* Watch runs over a file system and filters of which one call or two fail,
\* from the first sweep on or from a later one, while the caller may cancel
\* the context at any time
NextWatchErr ==
    \/ WatchSweep(MaxWatchErrSweeps)
    \/ TaskStep
    \/ \E t \in DirRel, n \in Names : AddedFails(t, n)
    \/ \E t \in DirRel : CancelPublish(t)
    \/ Cancel
    \/ WatchCheck
    \/ WatchCtxDone
    \/ WatchWake
    \/ \E f \in Faults : Inject(f, MaxWatchErrChanges)
    \/ \E p \in Paths : watch.pc = "sleep" /\ RemoveAll(p, MaxWatchErrChanges)

SpecWatchErr == InitWatchErr /\ [][NextWatchErr]_vars

\* the sub-root d holds the file d/a, and in some runs the directory d/e
\* with the file d/e/a
VanishTrees ==
    { f \in Trees :
        /\ f[<<"d">>].kind = "dir" /\ f[<<"d", "a">>].kind = "file"
        /\ f[<<"d", "e">>].kind = "dir" => f[<<"d", "e", "a">>].kind = "file"
        /\ f[<<"s">>].kind = "none" /\ f[<<"a">>].kind = "none" }

InitVanish == InitFrom(VanishTrees, SubConfigs, {NoWatch})

\* the sub-root and what it holds are removed and created again between
\* the sweeps
NextVanish ==
    \/ Sweep(MaxVanishSweeps)
    \/ TaskStep
    \/ \E p \in { <<"d">>, <<"d", "a">>, <<"d", "e">> } : RemoveAll(p, MaxVanishChanges)
    \/ Mkdir(<<"d">>, MaxVanishChanges)
    \/ WriteFile(<<"d", "a">>, MaxVanishChanges)

SpecVanish == InitVanish /\ [][NextVanish]_vars

\* filters that never change their answer: the directory filter rejects
\* d/e, the file filter rejects a
RecoverConfigs ==
    { Config(<<>>, AllEvents, TRUE, {<<"d", "e">>}, TRUE, {<<"a">>}, DefaultMaxDepth, 0) }

\* d and s are directories; d holds all it can hold, s holds s/a or nothing
RecoverTrees ==
    { f \in Trees :
        /\ \A p \in Paths \ { <<"s", "a">> } : f[p].kind # "none"
        /\ f[<<"s">>].kind = "dir" }

\* the listing of s fails, or the file filter called for d/a
RecoverFaults ==
    { NoFault,
      [NoFault EXCEPT !.readdir = {<<"s">>}],
      [NoFault EXCEPT !.fileFirst = {<<"d", "a">>}] }

InitRecover == InitFrom(RecoverTrees, RecoverConfigs, {NoWatch})

\* between the sweeps a file or a directory is removed or a file is written,
\* no name with another type than it had; then a call begins or ceases to
\* fail; the context is cancelled or replaced at any time
NextRecover ==
    \/ Sweep(MaxRecoverSweeps)
    \/ TaskStep
    \/ CtxStep
    \/ \E f \in RecoverFaults : Inject(f, MaxRecoverFaults)
    \/ \E p \in { <<"d">>, <<"d", "a">>, <<"s", "a">> } : RemoveAll(p, MaxRecoverChanges)
    \/ WriteFile(<<"s", "a">>, MaxRecoverChanges)

SpecRecover == InitRecover /\ [][NextRecover]_vars

\* the build of go.mod, "go 1.20": the range variable name is one variable
\* for the whole loop, and the closures handed to eg.Go read it as they run
FanConfigs == { [c EXCEPT !.perIteration = FALSE] : c \in Configs }

\* the root holds the directories d and s, each with a file, and the file a
\* or not; files come and go between the sweeps, and so do d and s
FanTrees ==
    { f \in Trees :
        /\ f[<<"d">>].kind = "dir" /\ f[<<"d", "a">>].kind = "file"
        /\ f[<<"s">>].kind = "dir" /\ f[<<"s", "a">>].kind = "file"
        /\ f[<<"d", "e">>].kind = "none" }

InitFan == InitFrom(FanTrees, FanConfigs, {NoWatch})

NextFan ==
    \/ Sweep(MaxFanSweeps)
    \/ TaskStep
    \/ \E t \in DirRel : CancelPublish(t)
    \/ \E p \in { <<"a">>, <<"d", "a">>, <<"s", "a">> } : WriteFile(p, MaxFanChanges)
    \/ \E p \in { <<"a">>, <<"d">>, <<"d", "a">>, <<"s">>, <<"s", "a">> } :
          RemoveAll(p, MaxFanChanges)

SpecFan == InitFan /\ [][NextFan]_vars

----------------------------------------------------------------------------
(* What a Sweep call is compared with.  These definitions read the file     *)
(* system, the options and the cache Sweep started from; they use none of   *)
(* the operators that model sweep and sweepDeleted.                         *)

Done == phase = "returned"

Ok == Done /\ res = "ok"

FreshCache == [k \in DirRel |-> IF k = <<>> THEN newDirCache ELSE NilCache]

\* the directory of task t as a path of the base file system
AbsKey(t) == cfg.subRoot \o t

\* the kind of entry n in the current listing of the directory of task t
Listing(t, n) == KindAt(AbsKey(t) \o <<n>>)

\* the cache entries of the directory of task t when Sweep was called
Prev(t) == sw.cache[t].entries

\* the directories whose listing the current Sweep call has compared
Visited == { t \in DirRel : task[t].listed }

Count(type, path) ==
    Cardinality({ i \in DOMAIN events : events[i].type = type /\ events[i].path = path })

Accepts(p) == ~cfg.fileFilter \/ p \notin cfg.fileExcl

DirAccepts(p) == ~cfg.dirFilter \/ p \notin cfg.dirExcl

Young(p, time) ==
    /\ cfg.writeStabilityThreshold > 0
    /\ fs[p].mtime + cfg.writeStabilityThreshold > time

\* entry n of the directory of task t is a file this sweep has to report as Added
Eligible(t, n) ==
    LET p == AbsKey(t) \o <<n>>
    IN  /\ Listing(t, n) = "file"
        /\ Accepts(p)
        /\ ~Young(p, now)
        /\ Prev(t)[n] = "none"

\* the file system is as the previous Sweep call, which succeeded, saw it
Unchanged == sw.res = "ok" /\ sw.ops = <<>>

\* when the previous Sweep was called every file was past the stability threshold
WasStable == \A p \in Paths : fs[p].kind = "file" => ~Young(p, sw.at)

----------------------------------------------------------------------------
\* C1 (no-op stability): when two consecutive successful Sweep calls see the
\* same file system, and every file was past the stability threshold at the
\* first, the second emits no event and leaves the cache as it was.
C1_NoOpStability ==
    (Ok /\ Unchanged /\ WasStable) => (events = <<>> /\ cache = sw.cache)

\* a second sweep over an unchanged tree with cached files at two depths
C1_Witness ==
    /\ Ok /\ Unchanged /\ WasStable
    /\ sw.cache[<<>>].entries["a"] = "file"
    /\ sw.cache[<<"d", "e">>].entries["a"] = "file"

----------------------------------------------------------------------------
\* every directory from the sub-root down to the one holding p passes the
\* directory filter and lies above the maximum depth
Reachable(p) ==
    /\ IsPrefix(cfg.subRoot, p)
    /\ \A i \in Len(cfg.subRoot)..(Len(p) - 1) : DirAccepts(SubSeq(p, 1, i))
    /\ Len(p) - 1 - Len(cfg.subRoot) < cfg.maxDepth

\* C2 (Added detection): a successful Sweep emits exactly one Added event for
\* each file of a visited directory's listing that passes the file filter and
\* the stability check and is not in that directory's previous cache entries,
\* and no other Added event; with an empty cache every existing stable file
\* that passes the filters is reported.
C2_AddedDetection ==
    Ok =>
      /\ \A t \in Visited, n \in Names :
            Eligible(t, n) => Count(FileAdded, AbsKey(t) \o <<n>>) = 1
      /\ \A i \in DOMAIN events :
            events[i].type = FileAdded =>
               \E t \in Visited, n \in Names :
                  Eligible(t, n) /\ events[i].path = AbsKey(t) \o <<n>>
      /\ sw.cache = FreshCache =>
            \A p \in Paths :
               (fs[p].kind = "file" /\ Accepts(p) /\ ~Young(p, now) /\ Reachable(p))
                  => Count(FileAdded, p) = 1

\* one sweep that reports new files and passes over a file the filter rejects
\* and a file that is still being written
C2_Witness ==
    /\ Ok
    /\ sw.cache # FreshCache
    /\ \E t \in Visited, n \in Names : Eligible(t, n)
    /\ \E t \in Visited, n \in Names :
          Listing(t, n) = "file" /\ ~Accepts(AbsKey(t) \o <<n>>)
    /\ \E t \in Visited, n \in Names :
          Listing(t, n) = "file" /\ Prev(t)[n] = "none" /\ Young(AbsKey(t) \o <<n>>, now)

----------------------------------------------------------------------------
\* C3 (Removed detection): a successful Sweep emits, for each visited
\* directory, exactly one Removed event for every file name of the directory's
\* previous cache entries that the current listing lacks, and no Removed event
\* for a file that is still present.
C3_RemovedDetection ==
    Ok =>
      /\ \A t \in Visited, n \in Names :
            (Prev(t)[n] = "file" /\ Listing(t, n) = "none")
               => Count(FileRemoved, AbsKey(t) \o <<n>>) = 1
      /\ \A i \in DOMAIN events :
            events[i].type = FileRemoved => KindAt(events[i].path) # "file"

\* of two cached files of one directory one is deleted and one stays
C3_Witness ==
    /\ Ok
    /\ Prev(<<>>)["a"] = "file" /\ Listing(<<>>, "a") = "none"
    /\ Prev(<<>>)["s"] = "file" /\ Listing(<<>>, "s") = "file"
    /\ Count(FileRemoved, <<"a">>) = 1

----------------------------------------------------------------------------
\* the cache nodes reached from node k through directory entries
RECURSIVE NodesUnder(_, _)
NodesUnder(ch, k) ==
    IF k \notin DirRel THEN {}
    ELSE IF ~ch[k].exists THEN {}
    ELSE {k} \cup UNION { NodesUnder(ch, k \o <<n>>) :
                            n \in { m \in Names : ch[k].entries[m] = "dir" } }

\* the files cached at any depth under node k
FilesUnder(ch, k) ==
    UNION { { AbsKey(j) \o <<n>> : n \in { m \in Names : ch[j].entries[m] = "file" } } :
              j \in NodesUnder(ch, k) }

\* the cached directory n of the directory of task t is gone from the listing
Vanished(t, n) == Prev(t)[n] = "dir" /\ Listing(t, n) = "none"

\* C4 (cascading removal): when a cached directory is gone from its parent's
\* listing, the Sweep emits exactly one Removed event for every file cached at
\* any depth under it, no event for the directory or a directory nested in it,
\* and drops the directory's cache subtree.
C4_CascadingRemoval ==
    Ok =>
      \A t \in Visited, n \in Names :
         Vanished(t, n) =>
            /\ \A p \in FilesUnder(sw.cache, t \o <<n>>) : Count(FileRemoved, p) = 1
            /\ \A i \in DOMAIN events :
                  IsPrefix(AbsKey(t \o <<n>>), events[i].path) =>
                     /\ events[i].type = FileRemoved
                     /\ events[i].path \in FilesUnder(sw.cache, t \o <<n>>)
            /\ \A k \in DirRel : IsPrefix(t \o <<n>>, k) => ~cache[k].exists

\* directory d is deleted with d/a and d/e/a cached
C4_Witness ==
    /\ Ok
    /\ Vanished(<<>>, "d")
    /\ sw.cache[<<"d">>].entries["a"] = "file"
    /\ sw.cache[<<"d", "e">>].entries["a"] = "file"
    /\ Count(FileRemoved, <<"d", "e", "a">>) = 1

----------------------------------------------------------------------------
\* C5 (unstable add deferred): a new file whose modification time is within
\* the write-stability threshold of now gets no event and no cache entry in
\* that sweep; a new file past the threshold gets exactly one Added event and
\* is cached, and a cached file gets no Added event in later sweeps.
C5_UnstableAddDeferred ==
    Ok =>
      \A t \in Visited, n \in Names :
         LET p == AbsKey(t) \o <<n>>
         IN  /\ (Listing(t, n) = "file" /\ Prev(t)[n] = "none" /\ Young(p, now)) =>
                   /\ \A i \in DOMAIN events : events[i].path # p
                   /\ cache[t].entries[n] = "none"
             /\ (Listing(t, n) = "file" /\ Prev(t)[n] = "none"
                   /\ Accepts(p) /\ ~Young(p, now)) =>
                   /\ Count(FileAdded, p) = 1
                   /\ cache[t].entries[n] = "file"
             /\ (Listing(t, n) = "file" /\ Prev(t)[n] = "file") =>
                   Count(FileAdded, p) = 0

\* a file that was too young at the previous Sweep call, and was not touched
\* since, is reported by the first sweep after it has aged
C5_Witness ==
    /\ Ok /\ Unchanged
    /\ \E p \in Paths :
          /\ fs[p].kind = "file"
          /\ Young(p, sw.at)
          /\ ~Young(p, now)
          /\ Count(FileAdded, p) = 1

----------------------------------------------------------------------------
\* p is an excluded directory or lies under one
UnderExcluded(p) == cfg.dirFilter /\ \E x \in cfg.dirExcl : IsPrefix(x, p)

\* what a sweep without directory filter emits for path p: Added for a new
\* file of an existing directory, Removed for a cached file that is gone, alone
\* or with a directory above it
AddedUnfiltered(p) ==
    \E t \in DirRel, n \in Names :
       p = AbsKey(t) \o <<n>> /\ KindAt(AbsKey(t)) = "dir" /\ Eligible(t, n)

RemovedUnfiltered(p) ==
    \E t \in DirRel, n \in Names :
       /\ KindAt(AbsKey(t)) = "dir"
       /\ \/ p = AbsKey(t) \o <<n>> /\ Prev(t)[n] = "file" /\ Listing(t, n) = "none"
          \/ Vanished(t, n) /\ p \in FilesUnder(sw.cache, t \o <<n>>)

\* C6 (directory exclusion): with a directory filter that rejects X from
\* construction on, no event is ever emitted for a path under X, whatever
\* changes inside X, while every path outside X is reported as a sweep without
\* the filter reports it.
C6_DirectoryExclusion ==
    /\ \A i \in DOMAIN events : ~UnderExcluded(events[i].path)
    /\ Ok =>
         \A p \in Paths :
            ~UnderExcluded(p) =>
               /\ Count(FileAdded, p) = (IF AddedUnfiltered(p) THEN 1 ELSE 0)
               /\ Count(FileRemoved, p) = (IF RemovedUnfiltered(p) THEN 1 ELSE 0)

\* the excluded directory is deleted with a file in it, and the same sweep
\* reports a change in a sibling directory
C6_Witness ==
    /\ Ok
    /\ sw.res = "ok"
    /\ \E i \in DOMAIN sw.ops :
          /\ sw.ops[i].path \in cfg.dirExcl
          /\ sw.ops[i].op = "rmdir"
          /\ ~sw.ops[i].empty
    /\ events # <<>>

----------------------------------------------------------------------------
SubRootMissing == cfg.subRoot # <<>> /\ KindAt(cfg.subRoot) = "none"

\* C7 (sub-root resolution): while the configured sub-root does not exist, a
\* Sweep call returns the root-not-found error, emits no event and calls no
\* filter; when the sub-root exists the Sweep succeeds and emits Added for
\* every eligible file under it.
C7_SubRootResolution ==
    /\ (phase # "idle" /\ SubRootMissing) =>
          /\ Done
          /\ res = "notexist"
          /\ events = <<>>
          /\ calls = {}
          /\ cache = sw.cache
    /\ (Done /\ ~SubRootMissing) =>
          /\ res = "ok"
          /\ \A t \in DirRel, n \in Names :
                (KindAt(AbsKey(t)) = "dir" /\ Reachable(AbsKey(t) \o <<n>>) /\ Eligible(t, n))
                   => Count(FileAdded, AbsKey(t) \o <<n>>) = 1

\* the Sweep before failed for want of the sub-root; this one reports d/a
C7_Witness ==
    /\ Ok
    /\ cfg.subRoot = <<"d">>
    /\ sw.res = "notexist"
    /\ Count(FileAdded, <<"d", "a">>) = 1

\* C8 (path prefixing): with sub-root S every event path, of an Added, a
\* Removed or a cascaded Removed event, and every path handed to the directory
\* filter or the file filter begins with S.
C8_PathPrefixing ==
    /\ \A i \in DOMAIN events : IsPrefix(cfg.subRoot, events[i].path)
    /\ \A c \in calls : IsPrefix(cfg.subRoot, c.path)

\* a cascaded Removed event under the sub-root, calls of both filters, and a
\* file outside the sub-root
C8_Witness ==
    /\ Ok
    /\ cfg.subRoot = <<"d">>
    /\ \E i \in DOMAIN events :
          /\ events[i].type = FileRemoved
          /\ events[i].path = <<"d", "e", "a">>
          /\ events[i].by = <<>>
    /\ \E c \in calls : c.filter = "dir"
    /\ \E c \in calls : c.filter = "file"
    /\ fs[<<"a">>].kind = "file"

----------------------------------------------------------------------------
\* what the cache Sweep started from holds for path p
CachedKind(p) ==
    LET rel == SubSeq(p, Len(cfg.subRoot) + 1, Len(p))
    IN  IF rel = <<>> \/ Parent(rel) \notin DirRel THEN "none"
        ELSE sw.cache[Parent(rel)].entries[rel[Len(rel)]]

\* since the previous Sweep call, which succeeded, the file system changed
\* only by empty directories being created or deleted
OnlyEmptyDirs ==
    /\ sw.res = "ok"
    /\ sw.ops # <<>>
    /\ \A i \in DOMAIN sw.ops :
          \/ sw.ops[i].op = "mkdir"
          \/ sw.ops[i].op = "rmdir" /\ sw.ops[i].empty

\* no event path names a directory: an Added path is a file, a Removed path
\* was cached as a file and is no directory now
NoDirEvent ==
    \A i \in DOMAIN events :
       /\ KindAt(events[i].path) # "dir"
       /\ events[i].type = FileAdded => KindAt(events[i].path) = "file"
       /\ events[i].type = FileRemoved => CachedKind(events[i].path) = "file"

\* C9 (directories never generate events): no Added or Removed event is ever
\* emitted whose path names a directory, and a sweep after nothing but the
\* creation or deletion of empty directories emits no event.
C9_DirectoriesNeverGenerateEvents ==
    /\ NoDirEvent
    /\ (Ok /\ OnlyEmptyDirs) => events = <<>>

----------------------------------------------------------------------------
\* C10 (event ordering within one directory): among the events of one sweep,
\* every Added event of the visit of a directory D comes before every Removed
\* event of that visit, direct or cascaded, and every event of the visit of D
\* comes before every event of the visit of a directory below D.
C10_EventOrdering ==
    \A i, j \in DOMAIN events :
       /\ (events[i].by = events[j].by
             /\ events[i].type = FileAdded /\ events[j].type = FileRemoved) => i < j
       /\ (IsPrefix(events[i].by, events[j].by) /\ events[i].by # events[j].by) => i < j

\* the root visit emits an Added and then a Removed event, and a child visit
\* an event after them
C10_Witness ==
    /\ Done
    /\ \E i, j, k \in DOMAIN events :
          /\ i < j /\ j < k
          /\ events[i].by = <<>> /\ events[i].type = FileAdded
          /\ events[j].by = <<>> /\ events[j].type = FileRemoved
          /\ events[k].by # <<>>

----------------------------------------------------------------------------
(* Cancellation and errors: what a Sweep call is compared with *)

\* the context was cancelled during the Sweep call, before the root visit returned
CutRunning == sw.cut # <<>> /\ sw.cut[1][<<>>] # "done"

\* the visits that had not begun when the context was cancelled
BeganAfterCut == { t \in DirRel : sw.cut[1][t] \in {"none", "start"} /\ task[t].pc # "none" }

\* some task of the Sweep call returned the error of a cancelled context
Observed == \E i \in 1..Len(fails) : fails[i].own /\ fails[i].kind = "canceled"

\* C11 (as stated): if the context is cancelled while the traversal is in
\* progress, Sweep returns an error that wraps the context's cancellation error.
C11_CancellationResult ==
    (Done /\ CutRunning) => res = "canceled"

\* C11 (amended): after a cancellation during the traversal, Sweep returns the
\* wrapped cancellation error exactly when some task meets the cancelled
\* context, at the start of a visit or in the select of a publication, and nil
\* otherwise; every visit that begins after the cancellation returns that
\* error without listing its directory.
C11_CancellationObserved ==
    (Done /\ sw.cut # <<>>) =>
        /\ res \in {"ok", "canceled"}
        /\ res = "canceled" <=> Observed
        /\ \A t \in BeganAfterCut : task[t].err = "canceled" /\ ~task[t].listed

\* a visit begins after the cancellation and Sweep returns the cancellation error
C11_Witness ==
    /\ Done
    /\ CutRunning
    /\ res = "canceled"
    /\ \E t \in BeganAfterCut : t # <<>> /\ task[t].err = "canceled"

\* task t waits in a select for the sink to receive an event
Blocked(t) == phase = "sweeping" /\ AtPublish(t)

\* C12: once the context is cancelled, a Sweep call whose tasks are blocked
\* publishing to a sink that never receives does not stay blocked: every task
\* returns and Sweep returns.
C12_CancellationLiveness ==
    (phase = "sweeping" /\ ctxDone) ~>
        (phase = "returned" /\ \A t \in DirRel : task[t].pc \in {"none", "done"})

\* the context is cancelled while the root waits for its children, one child
\* is blocked in the cascade of a removed directory and nothing was received
C12_Witness ==
    /\ ctxDone
    /\ events = <<>>
    /\ task[<<>>].pc = "wait"
    /\ \E t \in DirRel : t # <<>> /\ Blocked(t) /\ task[t].casc # <<>>

\* every task of the Sweep call has returned
AllReturned == \A t \in DirRel : task[t].pc \in {"none", "done"}

\* C13: when Sweep returns, every child task it spawned has returned; after
\* the return no event is published and no cache node is changed by the call.
C13_StructuredCompletion ==
    /\ [](Done => AllReturned)
    /\ [][(Done /\ phase' = "returned" /\ nSweeps' = nSweeps) =>
             (events' = events /\ cache' = cache /\ task' = task)]_vars

\* Sweep returns the error of one child after a sibling of that child, stopped
\* by the group's context, has returned too
C13_Witness ==
    /\ Done
    /\ res = "readdir"
    /\ \E t, u \in DirRel :
          /\ t # u /\ Len(t) = 1 /\ Len(u) = 1
          /\ task[t].err = "readdir"
          /\ task[u].err = "canceled"

\* the returns with an error into the task group of directory p, by position
GroupIdx(p) ==
    { i \in 1..Len(fails) : fails[i].by # <<>> /\ Parent(fails[i].by) = p }

\* the first error returned into the task group of directory p
FirstErr(p) == fails[CHOOSE i \in GroupIdx(p) : \A j \in GroupIdx(p) : i <= j].kind

\* the errors that arose in a visit, by position
OwnIdx == { i \in 1..Len(fails) : fails[i].own }

\* the first failure of the Sweep call
FirstFailure == fails[CHOOSE i \in OwnIdx : \A j \in OwnIdx : i <= j]

\* the visits of the current Sweep call that compared their listing and
\* stored it
Committed == { t \in DirRel : task[t].listed /\ \A i \in OwnIdx : fails[i].by # t }

\* what a visit stores for entry n of the directory of task t when the
\* filters accept everything
Stored(t, n) ==
    IF Listing(t, n) = "file" /\ Prev(t)[n] = "none" /\ Young(AbsKey(t) \o <<n>>, now)
    THEN "none" ELSE Listing(t, n)

\* the nodes stored by the visits that completed are kept, and no file the
\* cache held when Sweep was called is reported as Added
Retained ==
    /\ \A t \in Committed : \A n \in Names : cache[t].entries[n] = Stored(t, n)
    /\ \A t \in DirRel, n \in Names :
          sw.cache[t].entries[n] = "file" => Count(FileAdded, AbsKey(t) \o <<n>>) = 0

\* C14 (as stated): when a visit fails, the context of its siblings is
\* cancelled, Sweep returns an error that wraps the first failure, and the
\* cache nodes stored by the parent and the completed siblings are kept.
C14_FirstErrorSemantics ==
    (Done /\ OwnIdx # {}) =>
        /\ res = FirstFailure.kind
        /\ FirstFailure.by # <<>> => task[Parent(FirstFailure.by)].gdone
        /\ Retained

\* C14 (amended): when a visit fails, the context of its siblings is cancelled
\* and every task group hands up the first error returned into it: Sweep
\* returns an error that wraps the failure of some visit, the first one of
\* the root's group, which need not be the first failure of the sweep; no
\* error of a context cancelled by a group is returned; the cache nodes
\* stored by the parent and the completed siblings are kept.
C14_FirstErrorPerGroup ==
    (Done /\ OwnIdx # {}) =>
        /\ res # "ok"
        /\ \A p \in DirRel : GroupIdx(p) # {} =>
              task[p].gdone /\ task[p].err = FirstErr(p)
        /\ res = task[<<>>].err
        /\ \E i \in OwnIdx : fails[i].kind = res /\ res # "canceled"
        /\ Retained

\* a second Sweep call fails in s as the first one did; d/a, stored by the
\* sibling d that completed in the first call, is not reported again
C14_Witness ==
    /\ Done
    /\ sw.res = "readdir"
    /\ res = "readdir"
    /\ task[<<"s">>].err = "readdir"
    /\ sw.cache[<<"d">>].entries["a"] = "file"
    /\ <<"d">> \in Committed
    /\ task[<<>>].gdone

----------------------------------------------------------------------------
\* the event types the configured mask lets through
Permitted(type) == cfg.eventsMask \in {type, AllEvents}

\* the number of Added events for p that the listings call for, whatever the mask
DueAdded(p) ==
    Cardinality({ t \in Visited : \E n \in Names : p = AbsKey(t) \o <<n>> /\ Eligible(t, n) })

\* the number of Removed events for p that the cache calls for, whatever the mask
DueRemoved(p) ==
    Cardinality({ t \in Visited : \E n \in Names :
        \/ p = AbsKey(t) \o <<n>> /\ Prev(t)[n] = "file" /\ Listing(t, n) = "none"
        \/ Vanished(t, n) /\ p \in FilesUnder(sw.cache, t \o <<n>>) })

\* the cache a successful Sweep call leaves, whatever the mask
DueCache(t) ==
    IF t \in Visited
    THEN [exists |-> TRUE, entries |-> [n \in Names |-> Stored(t, n)]]
    ELSE IF \E u \in Visited, n \in Names : Vanished(u, n) /\ IsPrefix(u \o <<n>>, t)
         THEN NilCache
         ELSE sw.cache[t]

\* C15: with the mask FileAdded no Removed event is ever emitted, with the
\* mask FileRemoved no Added event; the events of a permitted type and the
\* cache after the sweep are what they are with the mask of both types, the
\* mask New starts with.
C15_EventMask ==
    /\ \A i \in DOMAIN events : Permitted(events[i].type)
    /\ Ok =>
         /\ \A i \in DOMAIN events : events[i].path \in Paths
         /\ \A p \in Paths :
               /\ Count(FileAdded, p) = IF Permitted(FileAdded) THEN DueAdded(p) ELSE 0
               /\ Count(FileRemoved, p) = IF Permitted(FileRemoved) THEN DueRemoved(p) ELSE 0
         /\ \A t \in DirRel : cache[t] = DueCache(t)

\* with the mask FileAdded a sweep reports its one new file and stays silent
\* about a removed directory, whose cache subtree it drops
C15_Witness ==
    /\ Ok
    /\ cfg.eventsMask = FileAdded
    /\ \E p \in Paths : DueRemoved(p) = 1 /\ Count(FileRemoved, p) = 0
    /\ \E p \in Paths : DueAdded(p) = 1 /\ Count(FileAdded, p) = 1
    /\ \E t \in DirRel : sw.cache[t].exists /\ ~cache[t].exists

----------------------------------------------------------------------------
\* the directories at a depth the sweep does not list (the root has depth 0)
Deep == { t \in DirRel : Len(t) >= cfg.maxDepth }

\* C16: a directory at depth >= maxDepth is never listed and its visit returns
\* no error; no event is ever emitted for a file in such a directory; with
\* maxDepth 0 a sweep emits nothing and succeeds.
C16_MaxDepth ==
    /\ \A t \in Deep :
          /\ ~task[t].listed
          /\ task[t].err = "nil"
          /\ cache[t].entries = NoEntries
    /\ \A i \in DOMAIN events : Parent(events[i].path) \notin Deep
    /\ Done => res = "ok"
    /\ cfg.maxDepth = 0 => events = <<>>

\* with maxDepth 2 the sweep reports d/a and returns from the visit of d/e,
\* which holds the file d/e/a, without listing it
C16_Witness ==
    /\ Ok
    /\ cfg.maxDepth = 2
    /\ fs[<<"d", "e", "a">>].kind = "file"
    /\ task[<<"d", "e">>].pc = "done"
    /\ ~task[<<"d", "e">>].listed
    /\ Count(FileAdded, <<"d", "a">>) = 1

----------------------------------------------------------------------------
\* the one visit of the current Sweep call in which a filter returned an error
FilterFailed(t) ==
    /\ Cardinality(OwnIdx) = 1
    /\ \E i \in OwnIdx : fails[i].by = t /\ fails[i].kind \in {"filterdir", "filterfile"}

\* the entries of the cache node of directory t and the nodes of its children
\* are what they were when Sweep was called (the node of a directory found by
\* this sweep is created, without entries, by the visit of the parent)
NodeUntouched(t) ==
    /\ cache[t].entries = sw.cache[t].entries
    /\ \A n \in Names : (t \o <<n>>) \in DirRel => cache[t \o <<n>>] = sw.cache[t \o <<n>>]

\* C17: if the directory filter or the file filter returns an error during
\* the visit of directory D, Sweep returns an error that wraps it, no event is
\* emitted for D's entries in that sweep, D is not descended, and D's cache
\* node is left as it was before the sweep.
C17_FilterError ==
    \A t \in DirRel :
       (Done /\ FilterFailed(t)) =>
          /\ res = task[t].err
          /\ \A i \in DOMAIN events : events[i].by # t
          /\ \A k \in DirRel : (k # t /\ IsPrefix(t, k)) => task[k].pc = "none"
          /\ NodeUntouched(t)

----------------------------------------------------------------------------
\* C18: a file that a deterministic file filter rejects is never stored in
\* the entries of a cache node and never gets an Added or a Removed event,
\* whether it is created, modified or deleted; the file filter is never
\* applied to a directory.
C18_FileFilter ==
    /\ \A p \in cfg.fileExcl :
          /\ cache[Parent(p)].entries[p[Len(p)]] # "file"
          /\ \A i \in DOMAIN events : events[i].path # p
    /\ \A c \in calls : c.filter = "file" => KindAt(c.path) = "file"

\* the filter was asked about the stable file d/a, which is not cached and not
\* reported, while d/e/a is reported; s, which the filter would reject as a
\* file, is a directory
C18_Witness ==
    /\ Ok
    /\ fs[<<"d", "a">>].kind = "file"
    /\ ~Young(<<"d", "a">>, now)
    /\ [filter |-> "file", path |-> <<"d", "a">>] \in calls
    /\ cache[<<"d">>].entries["a"] = "none"
    /\ Count(FileAdded, <<"d", "e", "a">>) = 1
    /\ fs[<<"s">>].kind = "dir"
    /\ cache[<<>>].entries["s"] = "dir"

----------------------------------------------------------------------------
\* entry n of the directory of task t was cached as a file when Sweep was
\* called, is still a file and passes the file filter
StillThere(t, n) ==
    /\ sw.cache[t].entries[n] = "file"
    /\ Listing(t, n) = "file"
    /\ Accepts(AbsKey(t) \o <<n>>)

\* C19: a file that is already cached gets no Added and no Removed event on a
\* later sweep, whatever happens to its modification time, as long as it
\* exists and passes the file filter; it stays cached.
C19_ExistenceOnlyTracking ==
    \A t \in DirRel, n \in Names :
       (phase # "idle" /\ StillThere(t, n)) =>
          /\ \A i \in DOMAIN events : events[i].path # AbsKey(t) \o <<n>>
          /\ (Ok /\ t \in Visited) => cache[t].entries[n] = "file"

\* the cached file a was rewritten and is inside the stability window again
\* when the next sweep runs
C19_Witness ==
    /\ Ok
    /\ StillThere(<<>>, "a")
    /\ \E i \in DOMAIN sw.ops : sw.ops[i].op = "rewrite" /\ sw.ops[i].path = <<"a">>
    /\ Young(<<"a">>, now)
    /\ cache[<<>>].entries["a"] = "file"

----------------------------------------------------------------------------
\* the errors of a context that is done
CtxErrs == {"canceled", "deadline"}

\* C20: Watch calls Sweep again and again, one call at a time; a Sweep error
\* that does not come from the context does not end Watch, which waits and
\* sweeps again; once a Sweep call returns an error caused by the context
\* being done, Watch returns the context's error and never calls Sweep again.
C20_WatchLoopErrorPolicy ==
    /\ [][nSweeps' # nSweeps => (phase = "idle" /\ watch.pc = "call")]_vars
    /\ [][(watch.pc = "call" /\ phase = "returned" /\ res \notin CtxErrs
             /\ watch' # watch) => watch'.pc = "sleep"]_vars
    /\ [](watch.pc = "returned" => (ctxDone /\ watch.ret = watch.ctxErr))
    /\ [][(phase = "returned" /\ res \in CtxErrs) =>
             ~(phase' = "idle" /\ watch'.pc = "call")]_vars

----------------------------------------------------------------------------
\* the visits of the current Sweep call that have stored their entries
Swept == { t \in Committed : task[t].pc \in {"wait", "done"} }

\* entry n of the listing of the directory of task t, if it is stable and
\* passes the file filter
StableEntry(t, n) ==
    LET p == AbsKey(t) \o <<n>>
    IN  IF Listing(t, n) = "file" /\ (~Accepts(p) \/ Young(p, now))
        THEN "none" ELSE Listing(t, n)

\* entry n of the listing of the directory of task t, if it passes the file
\* filter and is stable or has an entry in the node already
KeptEntry(t, n) ==
    LET p == AbsKey(t) \o <<n>>
    IN  IF Listing(t, n) = "file"
           /\ (~Accepts(p) \/ (Prev(t)[n] = "none" /\ Young(p, now)))
        THEN "none" ELSE Listing(t, n)

----------------------------------------------------------------------------
\* the tasks of the current Sweep call that have compared a listing with
\* cache node k and store, or have stored, their entries in it
Users(k) == { t \in DirRel : task[t].listed /\ task[t].node = k }

\* a child task exists only when the task that spawned it has stored its
\* entries and a node for every directory among them
ParentStored ==
    \A t \in DirRel :
       (t # <<>> /\ task[t].pc # "none") =>
          LET p == Parent(t)
          IN  /\ task[p].pc \in {"wait", "done", "dead"}
              /\ cache[task[p].node].entries = task[p].entries
              /\ \A n \in ChildDirs(task[p].entries) :
                    cache[task[p].node \o <<n>>].exists

----------------------------------------------------------------------------
\* task t of the current Sweep call has returned the error of a context it
\* found done
ObservedBy(t) ==
    \E i \in 1..Len(fails) :
       fails[i].by = t /\ fails[i].own /\ fails[i].kind = "canceled"

\* the events task t has published
EventsBy(t) == SelectSeq(events, LAMBDA ev : ev.by = t)

\* the cache nodes of the directory of task t and below
SubtreeOf(ch, t) == [k \in { j \in DirRel : IsPrefix(t, j) } |-> ch[k]]

\* C23: from the step in which a task observes the cancellation on, at the
\* start of its visit or in the select of a publication, the task publishes
\* no event and changes no cache node; a Sweep call whose context is done
\* already publishes no event, leaves the cache tree as it was and returns
\* the context's error.
C23_CancellationFrame ==
    /\ [][\A t \in DirRel :
            (ObservedBy(t)' /\ nSweeps' = nSweeps) =>
               /\ EventsBy(t)' = EventsBy(t)
               /\ SubtreeOf(cache, t)' = SubtreeOf(cache, t)]_vars
    /\ []((phase # "idle" /\ sw.ctx) =>
             /\ events = <<>>
             /\ cache = sw.cache
             /\ Done => res = "canceled")

\* a Sweep call was cut short by the cancellation after it had stored the
\* root's entries; the next call, with the context still cancelled, returns
\* the error although a file waits to be reported
C23_Witness ==
    /\ Done
    /\ sw.ctx
    /\ sw.res = "canceled"
    /\ res = "canceled"
    /\ sw.cache # FreshCache
    /\ \E t \in DirRel, n \in Names : KindAt(AbsKey(t)) = "dir" /\ Eligible(t, n)

----------------------------------------------------------------------------
\* the listing of the directory of task t failed in the current Sweep call
ListFailed(t) ==
    \E i \in 1..Len(fails) :
       fails[i].by = t /\ fails[i].own /\ fails[i].kind = "readdir"

\* C24: if the listing of directory D fails, the visit of D publishes no
\* event, leaves D's cache node as it was, starts no task for a directory
\* below D, and Sweep returns an error: the listing error when no other visit
\* of the sweep failed.  The first successful sweep after the failure reports
\* exactly the difference between its listings and the nodes left behind.
C24_ListingError ==
    /\ \A t \in DirRel :
          ListFailed(t) =>
             /\ EventsBy(t) = <<>>
             /\ NodeUntouched(t)
             /\ \A k \in DirRel : (k # t /\ IsPrefix(t, k)) => task[k].pc = "none"
             /\ Done => (res # "ok" /\ (Cardinality(OwnIdx) = 1 => res = "readdir"))
    /\ (Ok /\ sw.res = "readdir") =>
          \A p \in Paths :
             /\ Count(FileAdded, p) = DueAdded(p)
             /\ Count(FileRemoved, p) = DueRemoved(p)

\* s/a was cached and deleted; the sweep in which the listing of s failed
\* reported the new file a and nothing about s/a; the next sweep lists s and
\* reports s/a as removed
C24_Witness ==
    /\ Ok
    /\ sw.res = "readdir"
    /\ sw.cache[<<>>].entries["a"] = "file"
    /\ sw.cache[<<"s">>].entries["a"] = "file"
    /\ Count(FileRemoved, <<"s", "a">>) = 1
    /\ Len(events) = 1

----------------------------------------------------------------------------
\* the directory filter rejects directory d, under which the cache holds
\* files from the sweeps in which the filter accepted it
Stale(d) == d \in cfg.dirExcl /\ FilesUnder(sw.cache, d) # {}

\* directory d, or a directory above it, is gone from the listing of a
\* directory the current Sweep call has visited
Cascaded(d) ==
    \E u \in Visited, n \in Names : Vanished(u, n) /\ IsPrefix(u \o <<n>>, d)

\* nothing is reported as removed under directory d
NoRemovedUnder(d) ==
    \A i \in DOMAIN events :
       events[i].type = FileRemoved => ~IsPrefix(d, events[i].path)

\* C25 (as stated): once the directory filter rejects a directory D that was
\* swept and cached before, D's cache node is never modified again and no
\* Removed event is ever emitted for a file cached under D, even if those
\* files, or D itself, are deleted.
C25_ExcludedStaleCache ==
    \A d \in DirRel :
       (phase # "idle" /\ Stale(d)) =>
          /\ cache[d] = sw.cache[d]
          /\ NoRemovedUnder(d)

\* C25 (amended): once the directory filter rejects a directory D that was
\* swept and cached before, a sweep leaves D's cache node as it is and emits
\* no Removed event for a file cached under D, even if those files are
\* deleted, as long as D and the directories above it stay in the listings
\* of their parents; when D or a directory above it is gone from the listing
\* of a visited directory, the sweep emits one Removed event for every file
\* cached under D and drops D's cache node.
C25_ExcludedUntilDeleted ==
    \A d \in DirRel :
       (phase # "idle" /\ Stale(d)) =>
          IF Cascaded(d)
          THEN Ok => /\ \A p \in FilesUnder(sw.cache, d) : Count(FileRemoved, p) = 1
                     /\ ~cache[d].exists
          ELSE /\ SubtreeOf(cache, d) = SubtreeOf(sw.cache, d)
               /\ NoRemovedUnder(d)

\* the filter came to reject d after d/a was cached; d/a was deleted, and the
\* next sweep says nothing and keeps the entry
C25_Witness ==
    /\ Ok
    /\ Stale(<<"d">>)
    /\ fs[<<"d">>].kind = "dir"
    /\ fs[<<"d", "a">>].kind = "none"
    /\ cache[<<"d">>].entries["a"] = "file"
    /\ events = <<>>

----------------------------------------------------------------------------
\* C26: after every successful visit of directory D, the children map of D's
\* cache node holds a node for name n if and only if the entries of the node
\* hold n as a directory: the node is created in the sweep that first lists
\* the directory and is removed, with its subtree, in the sweep in which the
\* name is no longer a directory of the listing.
C26_CacheTreeLifecycle ==
    \A t \in Swept : \A n \in Names :
       (t \o <<n>>) \in DirRel =>
          /\ cache[t \o <<n>>].exists <=> cache[t].entries[n] = "dir"
          /\ Listing(t, n) # "dir" =>
                \A k \in DirRel : IsPrefix(t \o <<n>>, k) => ~cache[k].exists

----------------------------------------------------------------------------
\* C27: every Sweep call returns when the sink receives every event, also
\* on a file system with a directory cycle: no directory at depth >= maxDepth
\* is listed, and no task is left behind.
C27_BoundedRecursion ==
    /\ [](\A t \in DirRel : (task[t].listed => task[t].depth < cfg.maxDepth)
                            /\ ~task[t].lost)
    /\ (phase = "sweeping") ~> (phase = "returned" /\ AllReturned)

\* with maxDepth 3 the sweep follows the cycle once: it lists d/e, which is
\* d again, reports d/e/a, and returns from d/e/e without listing it
C27_Witness ==
    /\ Ok
    /\ cfg.maxDepth = 3
    /\ task[<<"d", "e">>].listed
    /\ Count(FileAdded, <<"d", "e", "a">>) = 1
    /\ task[<<"d", "e", "e">>].pc = "done"
    /\ ~task[<<"d", "e", "e">>].listed

----------------------------------------------------------------------------
\* C28: Watch returns only the error of its context, which is then done:
\* never nil and never an error of Sweep that the context did not cause; and
\* once the context is done, whether during a sweep, during a publication
\* that the sink does not receive or during the sleep, Watch returns.
C28_WatchTermination ==
    /\ [](watch.pc = "returned" =>
            (ctxDone /\ watch.ret \in CtxErrs /\ watch.ret = watch.ctxErr))
    /\ ctxDone ~> (watch.pc = "returned")

\* the second Sweep failed on the listing of s and Watch went to sleep; the
\* deadline of the context passed during the sleep, and Watch has returned
\* the context's error, not the error of the sweep
C28_Witness ==
    /\ watch.pc = "returned"
    /\ watch.ret = "deadline"
    /\ nSweeps = 2
    /\ phase = "returned"
    /\ res = "readdir"
    /\ ~sw.ctx

----------------------------------------------------------------------------
\* the paths whose latest event is Added when event i of the current Sweep
\* call is sent
ReportedBefore(i) == Reported(sw.reported, SubSeq(events, 1, i - 1))

\* C29: over any number of successful sweeps the events of one path
\* alternate, beginning with Added: a Removed event is sent only for a path
\* whose latest event is Added, and an Added event only for a path that has
\* no event yet or whose latest event is Removed.
C29_EventAlternation ==
    (cfg.eventsMask = AllEvents /\ nSweeps >= 1) =>
        \A i \in DOMAIN events :
            /\ events[i].type = FileRemoved => events[i].path \in ReportedBefore(i)
            /\ events[i].type = FileAdded => events[i].path \notin ReportedBefore(i)

----------------------------------------------------------------------------
\* the paths whose latest event is Added
ReportedNow == Reported(sw.reported, events)

\* the files that exist, pass the file filter and lie in a directory that is
\* less than maxDepth deep and of which no part is excluded
Watched ==
    { p \in Paths :
        /\ fs[p].kind = "file"
        /\ Accepts(p)
        /\ Len(p) - 1 < cfg.maxDepth
        /\ \A i \in 1..(Len(p) - 1) : DirAccepts(SubSeq(p, 1, i)) }

\* the file entries of the cache tree
CachedFiles ==
    { k \o <<n>> : k \in DirRel, n \in Names } \cap
      { q \in Paths : /\ cache[Parent(q)].exists
                      /\ cache[Parent(q)].entries[q[Len(q)]] = "file" }

\* C30: with threshold 0, filters that always answer the same, the default
\* mask and no name reused with another type, after every successful Sweep
\* the paths whose latest event is Added are exactly the watched files that
\* exist, and exactly the file entries of the cache tree.
C30_ReportedSetConvergence ==
    (Ok /\ cfg.writeStabilityThreshold = 0 /\ cfg.eventsMask = AllEvents) =>
        /\ ReportedNow = Watched
        /\ ReportedNow = CachedFiles

----------------------------------------------------------------------------
\* the cached file n of the directory of task t is a directory now
FileToDir(t, n) == Prev(t)[n] = "file" /\ Listing(t, n) = "dir"

\* the cached directory n of the directory of task t is a file now
DirToFile(t, n) == Prev(t)[n] = "dir" /\ Listing(t, n) = "file"

\* a cached file that a directory of the same name replaced is reported
\* Removed by the next sweep
SwapRemovesFile ==
    Ok => \A t \in Visited, n \in Names :
             FileToDir(t, n) => Count(FileRemoved, AbsKey(t) \o <<n>>) >= 1

\* when a file replaced a cached directory of the same name, the next sweep
\* reports Removed every file cached under the directory, and Added the file
\* if it is stable and passes the file filter
SwapRemovesDir ==
    Ok => \A t \in Visited, n \in Names :
             DirToFile(t, n) =>
                /\ \A p \in FilesUnder(sw.cache, t \o <<n>>) : Count(FileRemoved, p) >= 1
                /\ (Accepts(AbsKey(t) \o <<n>>) /\ ~Young(AbsKey(t) \o <<n>>, now))
                      => Count(FileAdded, AbsKey(t) \o <<n>>) >= 1

\* C31 (type swap): if between two sweeps a cached file is replaced by a
\* directory of the same name, the next sweep emits Removed for that file;
\* if a cached directory is replaced by a file of the same name, the next
\* sweep emits Removed for every file cached under the old directory and
\* Added for the new file when it is stable and passes the filter.
C31_TypeSwap == SwapRemovesFile /\ SwapRemovesDir

----------------------------------------------------------------------------
\* the previous Sweep call was aborted, and the file system is as that call
\* saw it
AfterAborted == sw.res \notin {"none", "ok"} /\ sw.ops = <<>>

\* no event of the current Sweep call repeats the latest event of its path
NoAddedTwice ==
    \A i \in DOMAIN events :
       events[i].type = FileAdded => events[i].path \notin ReportedBefore(i)

NoRemovedTwice ==
    \A i \in DOMAIN events :
       events[i].type = FileRemoved => events[i].path \in ReportedBefore(i)

\* C32 (at most once across aborted sweeps): when a Sweep was aborted by an
\* error or a cancellation after it had emitted events, the next Sweep over
\* the unchanged file system emits none of them again: no path gets two
\* Added events in a row or two Removed events in a row.
C32_AtMostOnceAcrossAborted ==
    (AfterAborted /\ cfg.eventsMask = AllEvents) => (NoAddedTwice /\ NoRemovedTwice)

----------------------------------------------------------------------------
\* the errors of a listing, of entry.Info() and of the filters
Failures == {"readdir", "stat", "filterdir", "filterfile"}

\* some task of the Sweep call returned the error of a context that its task
\* group had cancelled, the caller's context being live
GroupCancelled ==
    \E i \in 1..Len(fails) : fails[i].own /\ fails[i].kind = "canceled" /\ ~ctxDone

\* C33 (no spurious cancellation): filters returning no cancellation error,
\* Sweep returns context.Canceled only if the caller's context was cancelled;
\* the cancellation of sibling tasks after a first failure never becomes the
\* error of Sweep, and Watch never returns because a listing, entry.Info() or
\* a filter failed.
C33_NoSpuriousCancellation ==
    /\ (Done /\ res = "canceled") => (ctxDone /\ watch.ctxErr = "canceled")
    /\ (Done /\ GroupCancelled) => res \in Failures
    /\ watch.pc = "returned" => (ctxDone /\ watch.ret \notin Failures)

\* the listing of a directory failed, a sibling task was stopped by the
\* group's context and returned context.Canceled, Sweep returned the listing
\* error and Watch went on to sleep
C33_Witness ==
    /\ Done
    /\ GroupCancelled
    /\ res = "readdir"
    /\ watch.pc = "sleep"
    /\ \E i \in 1..Len(fails) : ~fails[i].own /\ fails[i].kind = "readdir"

----------------------------------------------------------------------------
\* the cache holds something: an earlier Sweep call succeeded
HasCached == \E t \in DirRel, n \in Names : sw.cache[t].entries[n] # "none"

\* under the sub-root there is what the cache holds, name by name
SameAsCached ==
    \A t \in DirRel, n \in Names :
       (IF KindAt(AbsKey(t)) = "dir" THEN Listing(t, n) ELSE "none")
          = (IF sw.cache[t].exists THEN sw.cache[t].entries[n] ELSE "none")

\* C34 (vanished sub-root): when the sub-root disappears after a successful
\* sweep, every Sweep until it is there again returns the root-not-found
\* error, emits no event, no Removed event for a cached file either, and
\* leaves the cache tree as it is; when the sub-root is there again with the
\* same contents, the next Sweep emits no event.
C34_VanishedSubRoot ==
    /\ (phase # "idle" /\ SubRootMissing /\ HasCached) =>
          /\ Done
          /\ res = "notexist"
          /\ events = <<>>
          /\ cache = sw.cache
    /\ (Done /\ sw.res = "notexist" /\ HasCached /\ ~SubRootMissing /\ SameAsCached) =>
          /\ res = "ok"
          /\ events = <<>>
          /\ cache = sw.cache

\* the third Sweep finds the sub-root again, with the file the first Sweep
\* cached and the second, which failed, left in the cache
C34_Witness ==
    /\ Ok
    /\ nSweeps = 3
    /\ sw.res = "notexist"
    /\ sw.cache[<<>>].entries["a"] = "file"
    /\ SameAsCached
    /\ events = <<>>

----------------------------------------------------------------------------
\* C35 (directories are not stability-gated): a directory whose own
\* modification time is within the write-stability threshold, for example
\* because something was just created or removed inside it, is kept in its
\* parent's cache entries and descended into, and no Removed event is emitted
\* for a file of it that is cached and still there.
C35_DirsNotStabilityGated ==
    Ok => \A t \in Visited, n \in Names :
             LET p == AbsKey(t) \o <<n>>
                 k == t \o <<n>>
             IN  (Listing(t, n) = "dir" /\ Young(p, now)) =>
                    /\ cache[t].entries[n] = "dir"
                    /\ k \in Visited
                    /\ \A m \in Names :
                          (Prev(k)[m] = "file" /\ Listing(k, m) = "file")
                             => Count(FileRemoved, p \o <<m>>) = 0

\* d was changed inside after the Sweep that cached d/a, and the next Sweep,
\* within the threshold of that change, keeps d and d/a
C35_Witness ==
    /\ Ok
    /\ sw.res = "ok"
    /\ \E i \in DOMAIN sw.ops : Parent(sw.ops[i].path) = <<"d">>
    /\ Young(<<"d">>, now)
    /\ Prev(<<"d">>)["a"] = "file"
    /\ cache[<<>>].entries["d"] = "dir"
    /\ cache[<<"d">>].entries["a"] = "file"
    /\ <<"d">> \in Visited
    /\ Count(FileRemoved, <<"d", "a">>) = 0

----------------------------------------------------------------------------
\* the visit of the directory of task t has stored its entries and started
\* its child tasks
Fanned(t) == task[t].listed /\ task[t].err = "nil" /\ task[t].pc \in {"wait", "done"}

----------------------------------------------------------------------------
\* the directory of task t exists and the directory filter accepts it and
\* every directory above it: a sweep lists it
Listed(t) ==
    /\ KindAt(AbsKey(t)) = "dir"
    /\ \A i \in 1..Len(t) : DirAccepts(AbsKey(SubSeq(t, 1, i)))

\* the cache of a watcher that was created for the file system as it is and
\* has swept it once
FirstSweepCache ==
    [k \in DirRel |->
        IF k = <<>> \/ (KindAt(AbsKey(k)) = "dir" /\ Listed(Parent(k)))
        THEN [exists |-> TRUE,
              entries |-> [n \in Names |->
                             IF ~Listed(k) THEN "none"
                             ELSE IF Listing(k, n) = "file" /\ ~Accepts(AbsKey(k) \o <<n>>)
                                  THEN "none" ELSE Listing(k, n)]]
        ELSE NilCache]

\* the sweep before the current one returned an error
AfterFailed == sw.res \notin {"none", "ok"}

RemovedIn(ev, p) == \E i \in DOMAIN ev : ev[i].type = FileRemoved /\ ev[i].path = p

\* a file leaves the cache in a sweep that has published Removed for it
LeavesWithRemoved ==
    \A p \in FilesUnder(cache, <<>>) \ FilesUnder(cache', <<>>) : RemovedIn(events', p)

\* C37 (recovery after a failed sweep): with threshold 0, filters that never
\* change their answer and no name reused with another type, the first Sweep
\* that succeeds after a Sweep that failed (listing error, filter error or
\* cancellation) leaves the cache a new watcher would hold after one Sweep of
\* the file system; and a file is taken out of the cache, by a sweep that
\* fails or succeeds, only when Removed has been published for it, so every
\* file deleted since the last committed state has received Removed.
C37_RecoveryAfterFailedSweep ==
    /\ []((Ok /\ AfterFailed) => cache = FirstSweepCache)
    /\ [][LeavesWithRemoved]_vars

\* s/a was deleted before a Sweep that failed; nothing changed in the file
\* system since; the Sweep that follows reports s/a and leaves the cache of a
\* first sweep
C37_Witness ==
    /\ Ok
    /\ AfterFailed
    /\ sw.ops = <<>>
    /\ sw.cache[<<"s">>].entries["a"] = "file"
    /\ fs[<<"s", "a">>].kind = "none"
    /\ Count(FileRemoved, <<"s", "a">>) = 1
    /\ cache = FirstSweepCache
    /\ cache # sw.cache

============================================================================
